---------------------------- MODULE Spec2Model ----------------------------
(***************************************************************************)
(* Model of the portfolio classification and carbon-price inference engine *)
(* of the climate-valuation repository: the winsorizer, the tercile        *)
(* classifier, the sector-relative classifier, the portfolio aggregator    *)
(* and the two valuation methodologies.                                    *)
(*                                                                         *)
(* The engine is a set of pure functions.  Each specification below draws  *)
(* the arguments of one call in its initial state (variable call) and has  *)
(* one action per function, which applies the function and stores what it  *)
(* returns (variable ret); pc tells whether the call has returned.  The     *)
(* functions that work on the database (the carbon-price cache, the stored *)
(* analysis results) run as processes that take one step per await; db     *)
(* holds the tables, and is the empty tuple where no table is used.        *)
(*                                                                         *)
(* Numbers.  A JavaScript number that can only be a finite integer in the  *)
(* inputs of the model is a TLA+ integer.  Where the code can produce NaN  *)
(* (winsorizeArray) a number is a tuple: <<x>> is the number x and <<>> is *)
(* NaN.  A nullable field is a tuple too: <<>> is null.  Quotients are     *)
(* exact rationals <<n, d>> in lowest terms with d > 0; floating-point     *)
(* rounding is not modelled.                                               *)
(***************************************************************************)
EXTENDS Integers, Sequences, FiniteSets, TLC

VARIABLES pc, call, ret, db

vars == <<pc, call, ret, db>>

-----------------------------------------------------------------------------
(* Bounds of the model *)

\* longest array handed to winsorizeArray (besides the fixture 1..100)
MaxLen == 3
\* array elements are drawn from 0..MaxValue
MaxValue == 3
\* longest list handed to assignTerciles
MaxCompanies == 6
\* non-null intensities handed to assignTerciles are drawn from 0..MaxIntensity
MaxIntensity == 2
\* average intensities of a portfolio are drawn from 0..MaxAvgIntensity
MaxAvgIntensity == 3
\* average price/earnings ratios of a portfolio are drawn from 1..MaxAvgPe
MaxAvgPe == 4
\* longest company list whose sectors are drawn freely
MaxFreeCompanies == 3
\* length of the company lists whose sectors follow a pattern
MaxDenseCompanies == 6
\* longest company list handed to calculatePortfolioMetrics
MaxMetricsCompanies == 3

-----------------------------------------------------------------------------
(* Generic helpers *)

Max(a, b) == IF a >= b THEN a ELSE b

Min(a, b) == IF a <= b THEN a ELSE b

\* all sequences over S of length 0..n
SeqsUpTo(S, n) == UNION {[1..k -> S] : k \in 0..n}

\* Array.prototype.sort with a consistent comparator: ascending and stable.
\* before[j][i] is "the comparator is negative on (s[j], s[i])".  The
\* element at index i lands behind every element that comes before it and
\* behind every earlier element that it does not come before.
SortRank(s, i, before) ==
  1 + Cardinality({j \in 1..Len(s) : before[j][i] \/ (j < i /\ ~before[i][j])})

StableSort(s, before) ==
  [r \in 1..Len(s) |-> s[CHOOSE i \in 1..Len(s) : SortRank(s, i, before) = r]]

\* a nullable field: <<>> is null, <<x>> holds x
NULL == <<>>

Some(x) == <<x>>

-----------------------------------------------------------------------------
(* Exact rationals <<n, d>>, d > 0, in lowest terms *)

Abs(x) == IF x < 0 THEN -x ELSE x

RECURSIVE GCD(_, _)
GCD(a, b) == IF b = 0 THEN a ELSE GCD(b, a % b)

Rat(n, d) ==
  LET g == GCD(Abs(n), Abs(d))
      sgn == IF d < 0 THEN -1 ELSE 1
  IN <<(sgn * n) \div g, (sgn * d) \div g>>

RInt(x) == <<x, 1>>

RAdd(a, b) == Rat(a[1] * b[2] + b[1] * a[2], a[2] * b[2])

RSub(a, b) == Rat(a[1] * b[2] - b[1] * a[2], a[2] * b[2])

\* the common factors are taken out before the products are formed
RMul(a, b) ==
  LET g1 == GCD(Abs(a[1]), Abs(b[2]))
      g2 == GCD(Abs(b[1]), Abs(a[2]))
  IN Rat((a[1] \div g1) * (b[1] \div g2), (a[2] \div g2) * (b[2] \div g1))

\* a / b for b # 0
RDiv(a, b) == RMul(a, Rat(b[2], b[1]))

\* a <= n for an integer n, without a product
RLeqInt(a, n) == (a[1] \div a[2]) < n \/ ((a[1] \div a[2]) = n /\ a[1] % a[2] = 0)

RLess(a, b) == a[1] * b[2] < b[1] * a[2]

RLeq(a, b) == a[1] * b[2] <= b[1] * a[2]

RZero == RInt(0)

ROne == RInt(1)

\* Math.max(0, x)
RMax0(x) == IF RLess(x, RZero) THEN RZero ELSE x

-----------------------------------------------------------------------------
(* JavaScript numbers that may be NaN *)

NaN == <<>>

Num(x) == <<x>>

\* Math.min / Math.max: NaN as soon as one argument is NaN (undefined -> NaN)
MathMin(a, b) == IF a = NaN \/ b = NaN THEN NaN ELSE Num(Min(a[1], b[1]))

MathMax(a, b) == IF a = NaN \/ b = NaN THEN NaN ELSE Num(Max(a[1], b[1]))

\* the comparator (a, b) => a - b is negative
NumBefore(a, b) == a # NaN /\ b # NaN /\ a[1] < b[1]

\* sorted[idx] with a 0-based index: undefined outside the array, and
\* undefined becomes NaN in Math.min / Math.max
At0(s, idx) == IF idx >= 0 /\ idx < Len(s) THEN s[idx + 1] ELSE NaN

-----------------------------------------------------------------------------
(* Winsorizer: carbonPriceCalculator.ts, winsorizeArray *)

\* upper limit of winsorizePercentile accepted by the endpoint
MaxPercentile == 50

sortedValues(values) ==
  StableSort(values, [j \in 1..Len(values) |->
                        [i \in 1..Len(values) |-> NumBefore(values[j], values[i])]])

lowerIdx(values, percentile) == (Len(values) * percentile) \div 100

upperIdx(values, percentile) == ((Len(values) * (100 - percentile)) \div 100) - 1

lowerBound(values, percentile) ==
  At0(sortedValues(values), Max(0, lowerIdx(values, percentile)))

upperBound(values, percentile) ==
  At0(sortedValues(values), Min(Len(values) - 1, upperIdx(values, percentile)))

\* trimming instead of winsorizing: the values outside the bounds are dropped
winsorizeArrayTrimmed(values, percentile) ==
  IF Len(values) = 0 THEN values
  ELSE LET lower == lowerBound(values, percentile)
           upper == upperBound(values, percentile)
       IN SelectSeq(values, LAMBDA v : MathMax(lower, MathMin(upper, v)) = v)

winsorizeArray(values, percentile) ==
  IF Len(values) = 0 THEN values
  ELSE LET lower == lowerBound(values, percentile)
           upper == upperBound(values, percentile)
       IN [i \in 1..Len(values) |-> MathMax(lower, MathMin(upper, values[i]))]

\* the array 1..100 of the worked case
OneToHundred == [i \in 1..100 |-> Num(i)]

WinsorizeCalls ==
  {[fn |-> "winsorizeArray", values |-> v, percentile |-> p] :
      v \in SeqsUpTo({Num(x) : x \in 0..MaxValue}, MaxLen), p \in 0..MaxPercentile}
  \cup {[fn |-> "winsorizeArray", values |-> OneToHundred, percentile |-> 5]}

InitWinsorize == pc = "call" /\ call \in WinsorizeCalls /\ ret = <<>> /\ db = <<>>

WinsorizeArray ==
  /\ pc = "call"
  /\ call.fn = "winsorizeArray"
  /\ ret' = winsorizeArray(call.values, call.percentile)
  /\ pc' = "done"
  /\ UNCHANGED <<call, db>>

\* the returned array is winsorized again with the same percentile
WinsorizeAgain ==
  /\ pc = "done"
  /\ call.fn = "winsorizeArray"
  /\ ret' = [first |-> ret, second |-> winsorizeArray(ret, call.percentile)]
  /\ pc' = "again"
  /\ UNCHANGED <<call, db>>

NextWinsorize == WinsorizeArray \/ WinsorizeAgain

SpecWinsorize == InitWinsorize /\ [][NextWinsorize]_vars

-----------------------------------------------------------------------------
(* Winsorizer: claims *)

WinsorizeDone == pc = "done" /\ call.fn = "winsorizeArray"

\* C8: winsorizing preserves length and position: the output has the length
\* of the input and output[i] = max(lowerBound, min(upperBound, input[i]))
\* for the two bounds, which are values of the array, so that an element
\* between the bounds is returned unchanged at its index.
C8_WinsorizeClampsInPlace ==
  WinsorizeDone =>
    LET values == call.values
        lower == lowerBound(values, call.percentile)
        upper == upperBound(values, call.percentile)
    IN /\ Len(ret) = Len(values)
       /\ \A i \in 1..Len(values) :
            /\ lower # NaN /\ upper # NaN
            /\ ret[i] = Num(Max(lower[1], Min(upper[1], values[i][1])))
            /\ (lower[1] <= values[i][1] /\ values[i][1] <= upper[1])
                  => ret[i] = values[i]

\* C9: winsorizing 1..100 at the 5th/95th percentiles maps 1 to 5, 2 to 5,
\* leaves 5 unchanged, maps 100 to 96 and leaves 51 unchanged.
C9_WinsorizeWorkedCase ==
  (WinsorizeDone /\ call.values = OneToHundred /\ call.percentile = 5) =>
    /\ ret[1] = Num(5)
    /\ ret[2] = Num(5)
    /\ ret[5] = Num(5)
    /\ ret[100] = Num(96)
    /\ ret[51] = Num(51)

\* C10: winsorizing an empty array returns an empty array and winsorizing a
\* single-element array returns that element unchanged, for every
\* percentile in 0..50.
C10_WinsorizeDegenerate ==
  (WinsorizeDone /\ Len(call.values) <= 1) => ret = call.values

WinsorizedTwice == pc = "again" /\ call.fn = "winsorizeArray"

\* C11: winsorizing is idempotent: winsorizing the winsorized array again
\* with the same percentile yields the same array (an array of NaN counts
\* as the same array of NaN).
C11_WinsorizeIdempotent ==
  WinsorizedTwice => ret.second = ret.first

\* C11 witness: the first pass changed the array at both ends and kept
\* more than one value, and the second pass was applied to its result
C11_Witness ==
  /\ WinsorizedTwice
  /\ Len(ret.first) = Len(call.values)
  /\ \E i, j, k \in 1..Len(call.values) :
       /\ ret.first[i] # NaN /\ ret.first[j] # NaN /\ ret.first[k] # NaN
       /\ call.values[i][1] < ret.first[i][1]
       /\ ret.first[j][1] < call.values[j][1]
       /\ ret.first[k] = call.values[k]
       /\ ret.first[i][1] < ret.first[j][1]

-----------------------------------------------------------------------------
(* Tercile classifier: assignTerciles of the tercile pre-computation *)

validIntensities(intensities) ==
  SelectSeq(intensities, LAMBDA item : item.intensity # NULL)

\* validIntensities.sort((a, b) => a.intensity - b.intensity)
sortByIntensity(valid) ==
  StableSort(valid, [j \in 1..Len(valid) |->
                       [i \in 1..Len(valid) |->
                          valid[j].intensity[1] < valid[i].intensity[1]]])

\* a plausible slip: Math.ceil instead of Math.floor
tercileSizeCeil(n) == (n + 2) \div 3

tercileSize(n) == n \div 3

\* The map is filled by the bottom loop, the top loop, the middle loop and
\* the null loop in this order; a later set of the same key overwrites an
\* earlier one and the null loop sets only the keys still missing.
assignTerciles(intensities) ==
  LET sorted == sortByIntensity(validIntensities(intensities))
      n == Len(sorted)
      k == tercileSize(n)
      ids == {intensities[i].companyId : i \in 1..Len(intensities)}
      Among(c, lo, hi) == \E i \in lo..hi : sorted[i].companyId = c
  IN IF n = 0 THEN [c \in ids |-> "null"]
     ELSE [c \in ids |->
             IF Among(c, k + 1, n - k) THEN "middle"
             ELSE IF Among(c, n - k + 1, n) THEN "top"
             ELSE IF Among(c, 1, k) THEN "bottom"
             ELSE "null"]

NullableIntensities == {NULL} \cup {Some(x) : x \in 0..MaxIntensity}

\* company ids are distinct and differ from the list positions
TercileCalls ==
  {[fn |-> "assignTerciles",
    intensities |-> [i \in 1..Len(xs) |->
                       [companyId |-> 101 + Len(xs) - i,
                        intensity |-> xs[i]]]] :
      xs \in SeqsUpTo(NullableIntensities, MaxCompanies)}

InitTerciles == pc = "call" /\ call \in TercileCalls /\ ret = <<>> /\ db = <<>>

AssignTerciles ==
  /\ pc = "call"
  /\ call.fn = "assignTerciles"
  /\ ret' = assignTerciles(call.intensities)
  /\ pc' = "done"
  /\ UNCHANGED <<call, db>>

NextTerciles == AssignTerciles

SpecTerciles == InitTerciles /\ [][NextTerciles]_vars

TercilesDone == pc = "done" /\ call.fn = "assignTerciles"

\* the companies of the list that assignTerciles labelled l
Labelled(l) ==
  {i \in 1..Len(call.intensities) : ret[call.intensities[i].companyId] = l}

\* C1: with n the number of non-null intensities and k = floor(n/3), exactly
\* k companies are 'bottom', k are 'top' and n - 2k are 'middle'; a company
\* has a label exactly when its intensity is not null; no 'bottom' company
\* has a higher intensity than a 'middle' or 'top' one and no 'middle'
\* company a higher intensity than a 'top' one.
C1_TercilesPartitionByRank ==
  TercilesDone =>
    LET xs == call.intensities
        valid == {i \in 1..Len(xs) : xs[i].intensity # NULL}
        n == Cardinality(valid)
        k == n \div 3
        Rank(l) == CASE l = "bottom" -> 1 [] l = "middle" -> 2 [] l = "top" -> 3
    IN /\ DOMAIN ret = {xs[i].companyId : i \in 1..Len(xs)}
       /\ Cardinality(Labelled("bottom")) = k
       /\ Cardinality(Labelled("top")) = k
       /\ Cardinality(Labelled("middle")) = n - 2 * k
       /\ Labelled("bottom") \cup Labelled("middle") \cup Labelled("top") = valid
       /\ Labelled("null") = (1..Len(xs)) \ valid
       /\ \A i, j \in valid :
            Rank(ret[xs[i].companyId]) < Rank(ret[xs[j].companyId])
              => xs[i].intensity[1] <= xs[j].intensity[1]

\* C1 witness: a list of six intensities, two in each tercile, where the
\* boundary between 'bottom' and 'middle' falls between two equal intensities
C1_Witness ==
  /\ TercilesDone
  /\ Cardinality(Labelled("bottom")) = 2
  /\ Cardinality(Labelled("middle")) = 2
  /\ Cardinality(Labelled("top")) = 2
  /\ \E i \in Labelled("bottom"), j \in Labelled("middle") :
       call.intensities[i].intensity = call.intensities[j].intensity
  /\ \E i \in Labelled("bottom"), j \in Labelled("top") :
       call.intensities[i].intensity # call.intensities[j].intensity

-----------------------------------------------------------------------------
(* Valuation / carbon-price engine: portfolioAnalyzerV2.ts *)

\* a plausible slip: the price returned without Math.max(0, ...)
calculateCarbonRiskDiscountUnclamped(climateMetrics, baselineMetrics) ==
  LET carbonRiskDiscount ==
        RSub(RDiv(climateMetrics.avgPeRatio, baselineMetrics.avgPeRatio), ROne)
      intensityDiff ==
        RSub(baselineMetrics.avgCarbonIntensity, climateMetrics.avgCarbonIntensity)
  IN [carbonRiskDiscount |-> carbonRiskDiscount,
      impliedCarbonPrice |->
        IF RLess(RZero, intensityDiff)
        THEN RDiv(RMul(carbonRiskDiscount, baselineMetrics.avgPeRatio), intensityDiff)
        ELSE RZero]

calculateCarbonRiskDiscount(climateMetrics, baselineMetrics) ==
  LET carbonRiskDiscount ==
        RSub(RDiv(climateMetrics.avgPeRatio, baselineMetrics.avgPeRatio), ROne)
      intensityDiff ==
        RSub(baselineMetrics.avgCarbonIntensity, climateMetrics.avgCarbonIntensity)
      impliedCarbonPrice ==
        IF RLess(RZero, intensityDiff)
        THEN RDiv(RMul(carbonRiskDiscount, baselineMetrics.avgPeRatio), intensityDiff)
        ELSE RZero
  IN [carbonRiskDiscount |-> carbonRiskDiscount,
      impliedCarbonPrice |-> RMax0(impliedCarbonPrice)]

\* default discount rate 0.08, in percent, and default horizon in years
DefaultDiscountRatePct == 8

DefaultCarbonCostHorizon == 30

\* 1 / (1 + r)^t in millionths, each power rounded down to a millionth
RECURSIVE pvTerm(_, _)
pvTerm(ratePct, t) ==
  IF t = 0 THEN 1000000 ELSE (pvTerm(ratePct, t - 1) * 100) \div (100 + ratePct)

\* pvFactor += 1 / Math.pow(1 + discountRate, t) for t = 1..horizon
RECURSIVE pvSum(_, _)
pvSum(ratePct, horizon) ==
  IF horizon = 0 THEN 0 ELSE pvSum(ratePct, horizon - 1) + pvTerm(ratePct, horizon)

pvFactor(ratePct, horizon) == Rat(pvSum(ratePct, horizon), 1000000)

\* a plausible slip: the price returned without Math.max(0, ...)
calculateImpliedCarbonPriceDCFUnclamped(climateMetrics, baselineMetrics) ==
  LET carbonRiskDiscount ==
        RSub(RDiv(climateMetrics.avgPeRatio, baselineMetrics.avgPeRatio), ROne)
      intensityDiff ==
        RSub(baselineMetrics.avgCarbonIntensity, climateMetrics.avgCarbonIntensity)
      valuationDiff == RMul(carbonRiskDiscount, baselineMetrics.avgPeRatio)
  IN IF RLeq(intensityDiff, RZero)
     THEN [carbonRiskDiscount |-> carbonRiskDiscount, impliedCarbonPrice |-> RZero]
     ELSE [carbonRiskDiscount |-> carbonRiskDiscount,
           impliedCarbonPrice |->
             RDiv(valuationDiff,
                  RMul(intensityDiff,
                       pvFactor(DefaultDiscountRatePct, DefaultCarbonCostHorizon)))]

\* called with the default discountRate and carbonCostHorizon
calculateImpliedCarbonPriceDCF(climateMetrics, baselineMetrics) ==
  LET carbonRiskDiscount ==
        RSub(RDiv(climateMetrics.avgPeRatio, baselineMetrics.avgPeRatio), ROne)
      intensityDiff ==
        RSub(baselineMetrics.avgCarbonIntensity, climateMetrics.avgCarbonIntensity)
      valuationDiff == RMul(carbonRiskDiscount, baselineMetrics.avgPeRatio)
      impliedCarbonPrice ==
        RDiv(valuationDiff,
             RMul(intensityDiff,
                  pvFactor(DefaultDiscountRatePct, DefaultCarbonCostHorizon)))
  IN IF RLeq(intensityDiff, RZero)
     THEN [carbonRiskDiscount |-> carbonRiskDiscount, impliedCarbonPrice |-> RZero]
     ELSE [carbonRiskDiscount |-> carbonRiskDiscount,
           impliedCarbonPrice |-> RMax0(impliedCarbonPrice)]

\* what calculatePortfolioMetrics can return for a portfolio: averages of
\* intensities >= 0 and of price/earnings ratios > 0 (here: whole and half
\* numbers)
AvgMetrics ==
  {[avgCarbonIntensity |-> Rat(i, 2), avgPeRatio |-> Rat(p, 2)] :
      i \in 0..(2 * MaxAvgIntensity), p \in 1..(2 * MaxAvgPe)}

ValuationCalls ==
  {[fn |-> "valuation", climateMetrics |-> c, baselineMetrics |-> b] :
      c \in AvgMetrics, b \in AvgMetrics}

\* both methodologies are applied to the same pair of metrics
InitValuation ==
  /\ pc = "call"
  /\ call \in ValuationCalls
  /\ ret = [relative |-> NULL, dcf |-> NULL]
  /\ db = <<>>

CalculateCarbonRiskDiscount ==
  /\ pc = "call"
  /\ call.fn = "valuation"
  /\ ret.relative = NULL
  /\ ret' = [ret EXCEPT !.relative =
               Some(calculateCarbonRiskDiscount(call.climateMetrics,
                                                call.baselineMetrics))]
  /\ pc' = IF ret.dcf # NULL THEN "done" ELSE "call"
  /\ UNCHANGED <<call, db>>

CalculateImpliedCarbonPriceDCF ==
  /\ pc = "call"
  /\ call.fn = "valuation"
  /\ ret.dcf = NULL
  /\ ret' = [ret EXCEPT !.dcf =
               Some(calculateImpliedCarbonPriceDCF(call.climateMetrics,
                                                   call.baselineMetrics))]
  /\ pc' = IF ret.relative # NULL THEN "done" ELSE "call"
  /\ UNCHANGED <<call, db>>

NextValuation == CalculateCarbonRiskDiscount \/ CalculateImpliedCarbonPriceDCF

SpecValuation == InitValuation /\ [][NextValuation]_vars

\* baseline.avgCarbonIntensity - climate.avgCarbonIntensity of the call
CallIntensityDiff ==
  RSub(call.baselineMetrics.avgCarbonIntensity,
       call.climateMetrics.avgCarbonIntensity)

RelativeDone == call.fn = "valuation" /\ ret.relative # NULL

DcfDone == call.fn = "valuation" /\ ret.dcf # NULL

\* C6: the relative methodology never returns a negative implied carbon
\* price, and returns exactly 0 whenever the intensity differential
\* baseline - climate is <= 0.
C6_RelativePriceNonNegative ==
  RelativeDone =>
    /\ RLeq(RZero, ret.relative[1].impliedCarbonPrice)
    /\ RLeq(CallIntensityDiff, RZero) => ret.relative[1].impliedCarbonPrice = RZero

\* C6 witness: the climate portfolio is the more intensive one and trades
\* richer, and the price returned is 0
C6_Witness ==
  /\ RelativeDone
  /\ RLess(CallIntensityDiff, RZero)
  /\ RLess(RZero, ret.relative[1].carbonRiskDiscount)
  /\ ret.relative[1].impliedCarbonPrice = RZero

\* C7: both methodologies return the same discount; the DCF price is 0 when
\* the intensity differential is <= 0; the DCF price is zero exactly when
\* the relative price is zero, and otherwise both are positive.
C7_MethodologiesAgree ==
  (RelativeDone /\ DcfDone) =>
    LET rel == ret.relative[1]
        dcf == ret.dcf[1]
    IN /\ rel.carbonRiskDiscount = dcf.carbonRiskDiscount
       /\ RLeq(CallIntensityDiff, RZero) => dcf.impliedCarbonPrice = RZero
       /\ (dcf.impliedCarbonPrice = RZero) <=> (rel.impliedCarbonPrice = RZero)
       /\ dcf.impliedCarbonPrice # RZero =>
            (RLess(RZero, dcf.impliedCarbonPrice) /\ RLess(RZero, rel.impliedCarbonPrice))

\* C7 witness: both prices are positive and the DCF price is the smaller
C7_Witness ==
  /\ RelativeDone /\ DcfDone
  /\ RLess(RZero, ret.dcf[1].impliedCarbonPrice)
  /\ RLess(ret.dcf[1].impliedCarbonPrice, ret.relative[1].impliedCarbonPrice)

-----------------------------------------------------------------------------
(* Companies and time series: drizzle/schema.ts, portfolioAnalyzerV2.ts *)

\* the elements of a sequence, each once, in the order of first appearance
\* (the key order of a Map filled in this order)
Distinct(s) ==
  LET first == SelectSeq([i \in 1..Len(s) |-> <<i, s[i]>>],
                         LAMBDA p : \A j \in 1..(p[1] - 1) : s[j] # p[2])
  IN [k \in 1..Len(first) |-> first[k][2]]

RECURSIVE Flatten(_)
Flatten(ss) == IF ss = <<>> THEN <<>> ELSE Head(ss) \o Flatten(Tail(ss))

ToSet(s) == {s[i] : i \in 1..Len(s)}

\* the first n elements of s
Take(s, n) == SubSeq(s, 1, Min(n, Len(s)))

RECURSIVE RSum(_)
RSum(s) == IF s = <<>> THEN RZero ELSE RAdd(Head(s), RSum(Tail(s)))

\* String.prototype.toUpperCase on the geography strings of the model
ToUpperCase(str) ==
  CASE str = "us" -> "US"
    [] str = "Germany" -> "GERMANY"
    [] str = "Japan" -> "JAPAN"
    [] str = "North America" -> "NORTH AMERICA"
    [] str = "Europe" -> "EUROPE"
    [] str = "Asia-Pacific" -> "ASIA-PACIFIC"
    [] str = "Latin America" -> "LATIN AMERICA"
    [] str = "Middle East & Africa" -> "MIDDLE EAST & AFRICA"
    [] str = "Other" -> "OTHER"
    [] str = "Unknown" -> "UNKNOWN"
    [] str = "Atlantis" -> "ATLANTIS"
    [] OTHER -> str

NorthAmerica == {"US", "USA", "UNITED STATES", "CA", "CANADA", "MX", "MEXICO"}

Europe ==
  {"UK", "GB", "UNITED KINGDOM", "DE", "GERMANY", "FR", "FRANCE", "IT", "ITALY",
   "ES", "SPAIN", "NL", "NETHERLANDS", "BE", "BELGIUM", "CH", "SWITZERLAND",
   "SE", "SWEDEN", "NO", "NORWAY", "DK", "DENMARK", "FI", "FINLAND",
   "AT", "AUSTRIA", "PL", "POLAND", "IE", "IRELAND", "PT", "PORTUGAL"}

AsiaPacific ==
  {"JP", "JAPAN", "CN", "CHINA", "KR", "KOREA", "SOUTH KOREA", "AU", "AUSTRALIA",
   "IN", "INDIA", "SG", "SINGAPORE", "HK", "HONG KONG", "TW", "TAIWAN",
   "TH", "THAILAND", "MY", "MALAYSIA", "ID", "INDONESIA", "NZ", "NEW ZEALAND"}

LatinAmerica ==
  {"BR", "BRAZIL", "AR", "ARGENTINA", "CL", "CHILE", "CO", "COLOMBIA", "PE", "PERU"}

MiddleEastAfrica ==
  {"SA", "SAUDI ARABIA", "AE", "UAE", "IL", "ISRAEL", "ZA", "SOUTH AFRICA",
   "EG", "EGYPT", "NG", "NIGERIA", "KE", "KENYA"}

\* geography: string | null
mapGeographyToRegion(geography) ==
  IF geography = NULL \/ geography = Some("") THEN "Unknown"
  ELSE LET geo == ToUpperCase(geography[1])
       IN IF geo \in NorthAmerica THEN "North America"
          ELSE IF geo \in Europe THEN "Europe"
          ELSE IF geo \in AsiaPacific THEN "Asia-Pacific"
          ELSE IF geo \in LatinAmerica THEN "Latin America"
          ELSE IF geo \in MiddleEastAfrica THEN "Middle East & Africa"
          ELSE "Other"

\* x || 0 for a nullable number
OrZero(x) == IF x = NULL THEN 0 ELSE x[1]

\* an intensity that is null for a company without emissions
calculateCarbonIntensityNullWithoutEmissions(scope1, scope2, scope3, marketCap, includeScope3) ==
  IF marketCap = NULL \/ marketCap[1] = 0 \/ marketCap[1] <= 0 THEN NULL
  ELSE LET s1 == OrZero(scope1)
           s2 == OrZero(scope2)
           s3 == IF includeScope3 THEN OrZero(scope3) ELSE 0
           totalEmissions == s1 + s2 + s3
       IN IF totalEmissions = 0 THEN NULL
          ELSE Some(Rat(totalEmissions * 1000000, marketCap[1]))

\* the analyzer's calculateCarbonIntensity: null, or the exact quotient
calculateCarbonIntensity(scope1, scope2, scope3, marketCap, includeScope3) ==
  IF marketCap = NULL \/ marketCap[1] = 0 \/ marketCap[1] <= 0 THEN NULL
  ELSE LET s1 == OrZero(scope1)
           s2 == OrZero(scope2)
           s3 == IF includeScope3 THEN OrZero(scope3) ELSE 0
           totalEmissions == s1 + s2 + s3
       IN Some(Rat(totalEmissions * 1000000, marketCap[1]))

\* timeSeries.find(t => t.date.getTime() === date.getTime()): the first
\* observation of the date, or null (undefined)
findAtDate(timeSeries, date) ==
  LET at == SelectSeq(timeSeries, LAMBDA t : t.date = date)
  IN IF at = <<>> THEN NULL ELSE Some(Head(at))

\* the carbon intensity of an observation
intensityOf(ts, includeScope3) ==
  calculateCarbonIntensity(ts.scope1Emissions, ts.scope2Emissions,
                           ts.scope3Emissions, ts.marketCap, includeScope3)

-----------------------------------------------------------------------------
(* Sector-relative classifier: classifyCompaniesSectorRelative *)

\* a filter on the geography as stored, without the mapping to a region
filterByRawGeography(companiesWithData, geography) ==
  IF geography # NULL /\ geography # Some("")
  THEN SelectSeq(companiesWithData, LAMBDA c : c.company.geography = geography)
  ELSE companiesWithData

\* lines 123-129: the region filter
filterByRegion(companiesWithData, geography) ==
  IF geography # NULL /\ geography # Some("")
  THEN SelectSeq(companiesWithData,
                 LAMBDA c : mapGeographyToRegion(c.company.geography) = geography[1])
  ELSE companiesWithData

\* company[sectorField]
sectorValue(c, parameters) ==
  IF parameters.sectorGranularity = "industry" THEN c.company.industry
  ELSE c.company.sector

\* lines 133-143: the keys of companiesBySector in insertion order
sectorKeys(filteredCompanies, parameters) ==
  Distinct(SelectSeq([i \in 1..Len(filteredCompanies) |->
                        sectorValue(filteredCompanies[i], parameters)],
                     LAMBDA v : v # NULL /\ v # Some("")))

\* a grouping that ignores the sector: every company that has one
companiesOfAnySector(filteredCompanies, parameters, sector) ==
  SelectSeq(filteredCompanies,
            LAMBDA c : sectorValue(c, parameters) # NULL
                       /\ sectorValue(c, parameters) # Some(""))

\* companiesBySector.get(sector)
companiesOfSector(filteredCompanies, parameters, sector) ==
  SelectSeq(filteredCompanies, LAMBDA c : sectorValue(c, parameters) = sector)

\* lines 148-173: the bottom tertile of the sector by carbon intensity
lowCarbonOfSector(sectorCompanies, date, parameters) ==
  LET ranked ==
        SelectSeq(sectorCompanies,
                  LAMBDA c :
                    /\ findAtDate(c.timeSeries, date) # NULL
                    /\ c.company.id # 0
                    /\ intensityOf(findAtDate(c.timeSeries, date)[1],
                                   parameters.includeScope3) # NULL)
      intensities ==
        [i \in 1..Len(ranked) |->
           [companyId |-> ranked[i].company.id,
            intensity |-> intensityOf(findAtDate(ranked[i].timeSeries, date)[1],
                                      parameters.includeScope3)[1]]]
      sorted ==
        StableSort(intensities,
                   [j \in 1..Len(intensities) |->
                      [i \in 1..Len(intensities) |->
                         RLess(intensities[j].intensity, intensities[i].intensity)]])
      tertileSize == Len(intensities) \div 3
  IN [i \in 1..Min(tertileSize, Len(intensities)) |-> sorted[i].companyId]

\* lines 176-189: the bottom tertile of the sector by emission target
decarbonizingOfSector(sectorCompanies) ==
  LET withTarget ==
        SelectSeq(sectorCompanies,
                  LAMBDA c : c.company.id # 0 /\ c.company.emissionTarget2050 # NULL)
      targets ==
        [i \in 1..Len(withTarget) |->
           [companyId |-> withTarget[i].company.id,
            target |-> withTarget[i].company.emissionTarget2050[1]]]
      sorted ==
        StableSort(targets,
                   [j \in 1..Len(targets) |->
                      [i \in 1..Len(targets) |-> targets[j].target < targets[i].target]])
      targetTertileSize == Len(targets) \div 3
  IN [i \in 1..Min(targetTertileSize, Len(targets)) |-> sorted[i].companyId]

\* the bottom tertile by SDG alignment score instead of the top one
solutionsOfSectorAscending(sectorCompanies) ==
  LET withScore ==
        SelectSeq(sectorCompanies,
                  LAMBDA c : c.company.id # 0 /\ c.company.sdgAlignmentScore # NULL)
      scores ==
        [i \in 1..Len(withScore) |->
           [companyId |-> withScore[i].company.id,
            score |-> withScore[i].company.sdgAlignmentScore[1]]]
      sorted ==
        StableSort(scores,
                   [j \in 1..Len(scores) |->
                      [i \in 1..Len(scores) |-> scores[j].score < scores[i].score]])
      scoreTertileSize == Len(scores) \div 3
  IN [i \in 1..Min(scoreTertileSize, Len(scores)) |-> sorted[i].companyId]

\* lines 192-205: the top tertile of the sector by SDG alignment score
solutionsOfSector(sectorCompanies) ==
  LET withScore ==
        SelectSeq(sectorCompanies,
                  LAMBDA c : c.company.id # 0 /\ c.company.sdgAlignmentScore # NULL)
      scores ==
        [i \in 1..Len(withScore) |->
           [companyId |-> withScore[i].company.id,
            score |-> withScore[i].company.sdgAlignmentScore[1]]]
      sorted ==
        StableSort(scores,
                   [j \in 1..Len(scores) |->
                      [i \in 1..Len(scores) |-> scores[i].score < scores[j].score]])
      scoreTertileSize == Len(scores) \div 3
  IN [i \in 1..Min(scoreTertileSize, Len(scores)) |-> sorted[i].companyId]

\* a baseline that keeps the climate companies
baselineOfEveryCompany(filteredCompanies, climateCompanies) ==
  LET rest == SelectSeq(filteredCompanies, LAMBDA c : c.company.id # 0)
  IN [i \in 1..Len(rest) |-> rest[i].company.id]

\* lines 208-214: every filtered company that is in no climate list
baselineOf(filteredCompanies, climateCompanies) ==
  LET rest == SelectSeq(filteredCompanies,
                        LAMBDA c : c.company.id # 0 /\ c.company.id \notin climateCompanies)
  IN [i \in 1..Len(rest) |-> rest[i].company.id]

classifyCompaniesSectorRelative(companiesWithData, date, parameters, geography) ==
  LET filteredCompanies == filterByRegion(companiesWithData, geography)
      keys == sectorKeys(filteredCompanies, parameters)
      bySector(j) == companiesOfSector(filteredCompanies, parameters, keys[j])
      lowCarbon ==
        Flatten([j \in 1..Len(keys) |-> lowCarbonOfSector(bySector(j), date, parameters)])
      decarbonizing ==
        Flatten([j \in 1..Len(keys) |-> decarbonizingOfSector(bySector(j))])
      solutions ==
        Flatten([j \in 1..Len(keys) |-> solutionsOfSector(bySector(j))])
      climateCompanies == ToSet(lowCarbon) \cup ToSet(decarbonizing) \cup ToSet(solutions)
  IN [lowCarbon |-> lowCarbon,
      decarbonizing |-> decarbonizing,
      solutions |-> solutions,
      baseline |-> baselineOf(filteredCompanies, climateCompanies)]

-----------------------------------------------------------------------------
(* Inputs of the classifier *)

Obs(date, marketCap, scope1, scope2, scope3, priceEarnings) ==
  [date |-> date, marketCap |-> marketCap, priceEarnings |-> priceEarnings,
   scope1Emissions |-> scope1, scope2Emissions |-> scope2,
   scope3Emissions |-> scope3]

\* the date every modelled call asks for (dates are compared by getTime()
\* only), and the date of a previous observation
AnalysisDate == "2024-06-30"

PreviousDate == "2023-12-31"

\* an observation of another date only
TsOtherDate == <<Obs(PreviousDate, Some(1000000), Some(1), NULL, NULL, Some(10))>>

\* an observation of the date without market cap: no intensity
TsNoMarketCap == <<Obs(AnalysisDate, NULL, Some(1), Some(1), NULL, Some(10))>>

\* intensity 1/2 without scope 3, 5/2 with it; preceded by another date
TsLow == <<Obs(PreviousDate, Some(1000000), Some(9), NULL, NULL, Some(10)),
           Obs(AnalysisDate, Some(2000000), Some(1), NULL, Some(4), Some(10))>>

\* intensity 2 with and without scope 3
TsHigh == <<Obs(AnalysisDate, Some(1000000), Some(1), Some(1), NULL, Some(20))>>

\* x[i] for the positions beyond the end of x too
Cyclic(x, i) == x[((i - 1) % Len(x)) + 1]

\* the three values an attribute takes where it is drawn freely: absent,
\* low, high (for the time series, absent alternates by position between
\* no observation at the date and no market cap)
TsLevel(level, i) ==
  CASE level = 1 -> IF i % 2 = 1 THEN TsOtherDate ELSE TsNoMarketCap
    [] level = 2 -> TsLow
    [] level = 3 -> TsHigh

TargetLevel(level) ==
  CASE level = 1 -> NULL [] level = 2 -> Some(-50) [] level = 3 -> Some(-20)

ScoreLevel(level) ==
  CASE level = 1 -> NULL [] level = 2 -> Some(1) [] level = 3 -> Some(3)

\* the values an attribute takes, by position, where it is not drawn
TsPattern == <<TsHigh, TsLow, TsOtherDate, TsLow, TsNoMarketCap, TsHigh>>

TargetPattern ==
  <<Some(-20), Some(-50), Some(0), Some(-50), Some(-10), Some(-30), NULL>>

ScorePattern == <<Some(2), Some(3), Some(1), NULL, Some(2), Some(3), Some(1)>>

GeographyPattern ==
  <<Some("US"), Some("us"), Some("CA"), Some("USA"), Some("Germany"), Some("US"),
    NULL, Some("Atlantis")>>

IndustryPattern == <<Some("Oil"), Some("Software")>>

\* sectors in blocks of three, and sectors interleaved with a company
\* without sector
SectorPatterns ==
  {<<Some("Energy"), Some("Energy"), Some("Energy"),
     Some("Tech"), Some("Tech"), Some("Tech"), NULL>>,
   <<Some("Energy"), NULL, Some("Energy"), Some("Tech"), Some("Tech"),
     Some("Energy"), Some("Tech")>>}

\* company i of a list: its sector, and the level of the attribute of the
\* axis; the other attributes follow their patterns
CompanyData(i, sector, axis, level) ==
  [company |->
     [id |-> 100 + i,
      geography |-> Cyclic(GeographyPattern, i),
      sector |-> sector,
      industry |-> Cyclic(IndustryPattern, i),
      emissionTarget2050 |->
        IF axis = "target" THEN TargetLevel(level) ELSE Cyclic(TargetPattern, i),
      sdgAlignmentScore |->
        IF axis = "score" THEN ScoreLevel(level) ELSE Cyclic(ScorePattern, i)],
   timeSeries |->
     IF axis = "intensity" THEN TsLevel(level, i) ELSE Cyclic(TsPattern, i)]

Axes == {"intensity", "target", "score"}

Sectors == {Some("Energy"), Some("Tech"), NULL}

DefaultParameters ==
  [includeScope3 |-> FALSE, methodology |-> "relative", sectorGranularity |-> "sector"]

AllParameters ==
  [includeScope3 : BOOLEAN, methodology : {"relative"},
   sectorGranularity : {"sector", "industry"}]

Regions == {NULL, Some("North America")}

\* a list of n companies
CompanyList(n, sectors, axis, levels) ==
  [i \in 1..n |-> CompanyData(i, sectors[i], axis, levels[i])]

ClassifyCall(companiesWithData, parameters, geography) ==
  [fn |-> "classifyCompaniesSectorRelative", companiesWithData |-> companiesWithData,
   date |-> AnalysisDate, parameters |-> parameters, geography |-> geography]

\* short lists with freely drawn sectors, default parameters, no region
InitClassifyFree ==
  \E n \in 0..MaxFreeCompanies, axis \in Axes :
    \E sectors \in [1..n -> Sectors], levels \in [1..n -> 1..3] :
      call = ClassifyCall(CompanyList(n, sectors, axis, levels), DefaultParameters, NULL)

\* lists of MaxDenseCompanies companies with sectors in a pattern, every
\* parameter and region
InitClassifyDense ==
  \E n \in {MaxDenseCompanies}, axis \in Axes :
    \E pattern \in SectorPatterns, levels \in [1..n -> 1..3] :
      \E parameters \in AllParameters, geography \in Regions :
        call = ClassifyCall(CompanyList(n, [i \in 1..n |-> Cyclic(pattern, i)], axis, levels),
                            parameters, geography)

InitClassify ==
  /\ pc = "call"
  /\ ret = <<>>
  /\ db = <<>>
  /\ (InitClassifyFree \/ InitClassifyDense)

ClassifyCompaniesSectorRelative ==
  /\ pc = "call"
  /\ call.fn = "classifyCompaniesSectorRelative"
  /\ ret' = classifyCompaniesSectorRelative(call.companiesWithData, call.date,
                                            call.parameters, call.geography)
  /\ pc' = "done"
  /\ UNCHANGED <<call, db>>

NextClassify == ClassifyCompaniesSectorRelative

SpecClassify == InitClassify /\ [][NextClassify]_vars

-----------------------------------------------------------------------------
(* Claims about the sector-relative classifier *)

ClassifyDone == pc = "done" /\ call.fn = "classifyCompaniesSectorRelative"

\* the companies of the call that pass the region filter
PassRegion == ToSet(filterByRegion(call.companiesWithData, call.geography))

\* the sector or industry of a company, as the call's granularity asks
GroupKey(c) ==
  IF call.parameters.sectorGranularity = "industry" THEN c.company.industry
  ELSE c.company.sector

\* the sector (industry) groups of the call
Groups == {GroupKey(c) : c \in PassRegion} \ {NULL, Some("")}

GroupOf(g) == {c \in PassRegion : GroupKey(c) = g}

HasObservation(c) == \E i \in 1..Len(c.timeSeries) : c.timeSeries[i].date = call.date

\* the intensity of a company at the date of the call (null or <<rational>>)
IntensityAt(c) ==
  IF HasObservation(c)
  THEN intensityOf(findAtDate(c.timeSeries, call.date)[1], call.parameters.includeScope3)
  ELSE NULL

\* the companies of a group that take part in each ranking
WithIntensity(g) == {c \in GroupOf(g) : IntensityAt(c) # NULL}

WithTarget(g) == {c \in GroupOf(g) : c.company.emissionTarget2050 # NULL}

WithScore(g) == {c \in GroupOf(g) : c.company.sdgAlignmentScore # NULL}

Ids(cs) == {c.company.id : c \in cs}

NoDuplicates(s) == Cardinality(ToSet(s)) = Len(s)

-----------------------------------------------------------------------------
(* Portfolio aggregator: calculatePortfolioMetrics *)

\* a filter that lets the negative price/earnings ratios through too
qualifiesNonZeroPe(c, companyIds, date, includeScope3) ==
  /\ c.company.id # 0
  /\ c.company.id \in ToSet(companyIds)
  /\ findAtDate(c.timeSeries, date) # NULL
  /\ LET ts == findAtDate(c.timeSeries, date)[1]
     IN /\ intensityOf(ts, includeScope3) # NULL
        /\ ts.priceEarnings # NULL
        /\ ts.priceEarnings[1] # 0

\* a filter that lets every price/earnings ratio through, null excepted
qualifiesAnyPe(c, companyIds, date, includeScope3) ==
  /\ c.company.id # 0
  /\ c.company.id \in ToSet(companyIds)
  /\ findAtDate(c.timeSeries, date) # NULL
  /\ LET ts == findAtDate(c.timeSeries, date)[1]
     IN /\ intensityOf(ts, includeScope3) # NULL
        /\ ts.priceEarnings # NULL

\* lines 235-248: the company contributes an element to validData
qualifies(c, companyIds, date, includeScope3) ==
  /\ c.company.id # 0
  /\ c.company.id \in ToSet(companyIds)
  /\ findAtDate(c.timeSeries, date) # NULL
  /\ LET ts == findAtDate(c.timeSeries, date)[1]
     IN /\ intensityOf(ts, includeScope3) # NULL
        /\ ts.priceEarnings # NULL
        /\ ts.priceEarnings[1] > 0

\* lines 232-251
validData(companyIds, companiesWithData, date, includeScope3) ==
  LET valid == SelectSeq(companiesWithData,
                         LAMBDA c : qualifies(c, companyIds, date, includeScope3))
  IN [i \in 1..Len(valid) |->
        LET ts == findAtDate(valid[i].timeSeries, date)[1]
        IN [intensity |-> intensityOf(ts, includeScope3)[1],
            pe |-> ts.priceEarnings[1]]]

calculatePortfolioMetrics(companyIds, companiesWithData, date, includeScope3) ==
  LET data == validData(companyIds, companiesWithData, date, includeScope3)
      size == Len(data)
  IN IF size = 0 THEN NULL
     ELSE Some([avgCarbonIntensity |->
                  RDiv(RSum([i \in 1..size |-> data[i].intensity]), RInt(size)),
                avgPeRatio |->
                  RDiv(RSum([i \in 1..size |-> RInt(data[i].pe)]), RInt(size)),
                portfolioSize |-> size])

\* observations of the date with an intensity of 2 and a price/earnings
\* ratio that is null, zero, negative
TsNoPe == <<Obs(AnalysisDate, Some(1000000), Some(1), Some(1), NULL, NULL)>>

TsZeroPe == <<Obs(AnalysisDate, Some(1000000), Some(1), Some(1), NULL, Some(0))>>

TsNegativePe == <<Obs(AnalysisDate, Some(1000000), Some(1), Some(1), NULL, Some(-5))>>

MetricsTimeSeries ==
  {TsOtherDate, TsNoMarketCap, TsNoPe, TsZeroPe, TsNegativePe, TsLow, TsHigh}

\* company i of a list handed to calculatePortfolioMetrics
MetricsCompany(i, timeSeries) ==
  [company |-> CompanyData(i, Some("Energy"), "none", 1).company,
   timeSeries |-> timeSeries]

\* the ids picked by a mask over the ids of the companies 1..n and the id
\* 100 + n + 1, which no company of the list has
PickIds(n, mask) ==
  SelectSeq([k \in 1..(n + 1) |-> 100 + k], LAMBDA id : mask[id - 100])

InitMetrics ==
  /\ pc = "call"
  /\ ret = <<>>
  /\ db = <<>>
  /\ \E n \in 0..MaxMetricsCompanies :
       \E series \in [1..n -> MetricsTimeSeries], mask \in [1..(n + 1) -> BOOLEAN],
          includeScope3 \in BOOLEAN :
         call = [fn |-> "calculatePortfolioMetrics",
                 companyIds |-> PickIds(n, mask),
                 companiesWithData |-> [i \in 1..n |-> MetricsCompany(i, series[i])],
                 date |-> AnalysisDate,
                 includeScope3 |-> includeScope3]

CalculatePortfolioMetrics ==
  /\ pc = "call"
  /\ call.fn = "calculatePortfolioMetrics"
  /\ ret' = calculatePortfolioMetrics(call.companyIds, call.companiesWithData,
                                      call.date, call.includeScope3)
  /\ pc' = "done"
  /\ UNCHANGED <<call, db>>

NextMetrics == CalculatePortfolioMetrics

SpecMetrics == InitMetrics /\ [][NextMetrics]_vars

-----------------------------------------------------------------------------
(* Claims about the portfolio aggregator *)

MetricsDone == pc = "done" /\ call.fn = "calculatePortfolioMetrics"

\* the observation of a company at the date of the call (null or <<obs>>)
ObservationAt(c) == findAtDate(c.timeSeries, call.date)

\* the companies of companyIds with an observation at the date, an
\* intensity and a positive price/earnings ratio
Qualifying ==
  {c \in ToSet(call.companiesWithData) :
     /\ c.company.id \in ToSet(call.companyIds)
     /\ ObservationAt(c) # NULL
     /\ intensityOf(ObservationAt(c)[1], call.includeScope3) # NULL
     /\ ObservationAt(c)[1].priceEarnings # NULL
     /\ ObservationAt(c)[1].priceEarnings[1] > 0}

RECURSIVE IntensitySum(_)
IntensitySum(cs) ==
  IF cs = {} THEN RZero
  ELSE LET c == CHOOSE x \in cs : TRUE
       IN RAdd(intensityOf(ObservationAt(c)[1], call.includeScope3)[1],
               IntensitySum(cs \ {c}))

RECURSIVE PeSum(_)
PeSum(cs) ==
  IF cs = {} THEN 0
  ELSE LET c == CHOOSE x \in cs : TRUE
       IN ObservationAt(c)[1].priceEarnings[1] + PeSum(cs \ {c})

\* C5: calculatePortfolioMetrics returns null exactly when no company of
\* companyIds has an observation at the date, an intensity and a positive
\* price/earnings ratio; otherwise portfolioSize is the number of these
\* companies and both averages are taken over them only.
C5_MetricsOverValidCompanies ==
  MetricsDone =>
    LET size == Cardinality(Qualifying)
    IN /\ (ret = NULL) <=> (Qualifying = {})
       /\ ret # NULL =>
            /\ ret[1].portfolioSize = size
            /\ ret[1].avgCarbonIntensity = RDiv(IntensitySum(Qualifying), RInt(size))
            /\ ret[1].avgPeRatio = Rat(PeSum(Qualifying), size)

\* C5 witness: two companies are averaged, with different intensities and
\* ratios, while a company of companyIds with a non-positive ratio is not
C5_Witness ==
  /\ MetricsDone
  /\ ret # NULL
  /\ ret[1].portfolioSize = 2
  /\ ret[1].avgPeRatio = RInt(15)
  /\ ret[1].avgCarbonIntensity = Rat(9, 4)
  /\ \E c \in ToSet(call.companiesWithData) :
       /\ c.company.id \in ToSet(call.companyIds)
       /\ ObservationAt(c) # NULL
       /\ ObservationAt(c)[1].priceEarnings # NULL
       /\ ObservationAt(c)[1].priceEarnings[1] <= 0

-----------------------------------------------------------------------------
(* Total-based carbon price: carbonPriceCalculator.ts,                     *)
(* calculateTotalBasedCarbonPrice.  The numbers of a result are NaN or     *)
(* <<rational>>.                                                           *)

\* a sum or an element of an array as a number of a result
RNum(x) == IF x = NaN THEN NaN ELSE <<RInt(x[1])>>

JsZero == <<RZero>>

\* a > 0 (false for NaN)
JsPositive(a) == a # NaN /\ RLess(RZero, a[1])

\* a / b, used where b > 0 has been tested
JsDiv(a, b) == IF a = NaN \/ b = NaN THEN NaN ELSE <<RDiv(a[1], b[1])>>

JsSub(a, b) == IF a = NaN \/ b = NaN THEN NaN ELSE <<RSub(a[1], b[1])>>

JsMul(a, b) == IF a = NaN \/ b = NaN THEN NaN ELSE <<RMul(a[1], b[1])>>

\* array.reduce((sum, v) => sum + v, 0)
RECURSIVE NumSum(_)
NumSum(values) ==
  IF values = <<>> THEN Num(0)
  ELSE LET rest == NumSum(Tail(values))
       IN IF Head(values) = NaN \/ rest = NaN THEN NaN
          ELSE Num(Head(values)[1] + rest[1])

\* rows that count only with scope 1 emissions
validTsWithScope1(rows) ==
  SelectSeq(rows, LAMBDA ts :
              /\ ts.marketCap # NULL
              /\ ts.netProfit # NULL
              /\ ts.scope1Emissions # NULL)

\* lines 133-136 and 165-168: the rows of a group that count
validTs(rows) ==
  SelectSeq(rows, LAMBDA ts :
              /\ ts.marketCap # NULL
              /\ ts.netProfit # NULL
              /\ (ts.scope1Emissions # NULL \/ ts.scope2Emissions # NULL))

\* lines 142-147: the emissions of a row
emissionsOf(ts, includeScope3) ==
  OrZero(ts.scope1Emissions) + OrZero(ts.scope2Emissions)
    + (IF includeScope3 THEN OrZero(ts.scope3Emissions) ELSE 0)

\* winsorizing whenever the flag is set, whatever the size of the group
shouldWinsorizeAnySize(winsorize, length) == winsorize

\* lines 151 and 183: winsorize && marketCaps.length > 10
shouldWinsorize(winsorize, length) == winsorize /\ length > 10

\* lines 140-162 and 172-194: the totals of a group
tercileTotals(valid, includeScope3, winsorize, winsorizePercentile) ==
  LET n == Len(valid)
      apply == shouldWinsorize(winsorize, n)
      Winsorized(values) ==
        IF apply THEN winsorizeArray(values, winsorizePercentile) ELSE values
      marketCaps == Winsorized([i \in 1..n |-> Num(valid[i].marketCap[1])])
      profits == Winsorized([i \in 1..n |-> Num(valid[i].netProfit[1])])
      emissions == Winsorized([i \in 1..n |-> Num(emissionsOf(valid[i], includeScope3))])
      peRatios ==
        Winsorized(SelectSeq([i \in 1..n |-> Num(OrZero(valid[i].priceEarnings))],
                             LAMBDA pe : pe[1] > 0))
      totalMarketCap == NumSum(marketCaps)
      totalProfit == NumSum(profits)
      totalEmissions == NumSum(emissions)
  IN [totalMarketCap |-> RNum(totalMarketCap),
      totalProfit |-> RNum(totalProfit),
      totalEmissions |-> RNum(totalEmissions),
      avgPe |-> IF Len(peRatios) > 0
                THEN JsDiv(RNum(NumSum(peRatios)), <<RInt(Len(peRatios))>>)
                ELSE JsZero,
      peRatio |-> IF JsPositive(RNum(totalProfit))
                  THEN JsDiv(RNum(totalMarketCap), RNum(totalProfit))
                  ELSE JsZero,
      companyCount |-> n]

\* a price that is clamped at 0 like the prices of the analyzer
impliedCarbonPriceClamped(top, bottom) ==
  IF JsPositive(bottom.peRatio) /\ JsPositive(top.totalEmissions)
  THEN LET adjustedTopProfit == JsDiv(top.totalMarketCap, bottom.peRatio)
           profitDifference == JsSub(top.totalProfit, adjustedTopProfit)
           price == JsMul(JsDiv(profitDifference, top.totalEmissions), <<RInt(1000000)>>)
       IN IF JsPositive(price) THEN price ELSE JsZero
  ELSE JsZero

\* lines 199-204
impliedCarbonPrice(top, bottom) ==
  IF JsPositive(bottom.peRatio) /\ JsPositive(top.totalEmissions)
  THEN LET adjustedTopProfit == JsDiv(top.totalMarketCap, bottom.peRatio)
           profitDifference == JsSub(top.totalProfit, adjustedTopProfit)
       IN JsMul(JsDiv(profitDifference, top.totalEmissions), <<RInt(1000000)>>)
  ELSE JsZero

\* lines 105-111: the companies of a tercile at a date
tercileCompanyIds(dateTerciles, assignment) ==
  LET rows == SelectSeq(dateTerciles, LAMBDA t : t.tercileAssignment = assignment)
  IN [i \in 1..Len(rows) |-> rows[i].companyId]

\* lines 128-221: the result of a date from its terciles and the time
\* series rows of the date, or null where the loop continues
dateResult(date, dateTerciles, tsData, includeScope3, winsorize, winsorizePercentile) ==
  LET topTercileCompanyIds == tercileCompanyIds(dateTerciles, "top")
      bottomTercileCompanyIds == tercileCompanyIds(dateTerciles, "bottom")
      topTs == SelectSeq(tsData, LAMBDA ts : ts.companyId \in ToSet(topTercileCompanyIds))
      bottomTs ==
        SelectSeq(tsData, LAMBDA ts : ts.companyId \in ToSet(bottomTercileCompanyIds))
      topValidTs == validTs(topTs)
      bottomValidTs == validTs(bottomTs)
      top == tercileTotals(topValidTs, includeScope3, winsorize, winsorizePercentile)
      bottom == tercileTotals(bottomValidTs, includeScope3, winsorize, winsorizePercentile)
  IN IF Len(topValidTs) = 0 \/ Len(bottomValidTs) = 0 THEN NULL
     ELSE Some([date |-> date,
                topTercileEmissions |-> top.totalEmissions,
                topTercileProfit |-> top.totalProfit,
                topTercileMarketCap |-> top.totalMarketCap,
                topTercilePeRatio |-> top.peRatio,
                topTercileCompanyCount |-> top.companyCount,
                bottomTercileEmissions |-> bottom.totalEmissions,
                bottomTercileProfit |-> bottom.totalProfit,
                bottomTercileMarketCap |-> bottom.totalMarketCap,
                bottomTercilePeRatio |-> bottom.peRatio,
                bottomTercileCompanyCount |-> bottom.companyCount,
                impliedCarbonPrice |-> impliedCarbonPrice(top, bottom)])

\* the key columns of a tercile row match the call (lines 74-80)
tercileMatches(t, args) ==
  /\ t.uploadId = args.uploadId
  /\ t.method = args.method
  /\ t.includeScope3 = (IF args.includeScope3 THEN 1 ELSE 0)

\* the key columns of a cache row match the call (lines 40-48)
cacheMatches(row, args) ==
  /\ row.uploadId = args.uploadId
  /\ row.method = args.method
  /\ row.includeScope3 = (IF args.includeScope3 THEN 1 ELSE 0)
  /\ row.winsorize = (IF args.winsorize THEN 1 ELSE 0)
  /\ row.winsorizePercentile = args.winsorizePercentile

\* x || 0 for a number column of a cache row
NumberOrZero(x) == IF x = NaN THEN JsZero ELSE x

\* lines 52-65: a cache row as a result
cachedResult(row) ==
  [date |-> row.date,
   topTercileEmissions |-> NumberOrZero(row.topTercileEmissions),
   topTercileProfit |-> NumberOrZero(row.topTercileProfit),
   topTercileMarketCap |-> NumberOrZero(row.topTercileMarketCap),
   topTercilePeRatio |-> NumberOrZero(row.topTercilePeRatio),
   topTercileCompanyCount |-> row.topTercileCompanyCount,
   bottomTercileEmissions |-> NumberOrZero(row.bottomTercileEmissions),
   bottomTercileProfit |-> NumberOrZero(row.bottomTercileProfit),
   bottomTercileMarketCap |-> NumberOrZero(row.bottomTercileMarketCap),
   bottomTercilePeRatio |-> NumberOrZero(row.bottomTercilePeRatio),
   bottomTercileCompanyCount |-> row.bottomTercileCompanyCount,
   impliedCarbonPrice |-> NumberOrZero(row.impliedCarbonPrice)]

\* lines 224-242: a result as a cache record
cacheRecord(result, args) ==
  [uploadId |-> args.uploadId,
   date |-> result.date,
   method |-> args.method,
   includeScope3 |-> IF args.includeScope3 THEN 1 ELSE 0,
   winsorize |-> IF args.winsorize THEN 1 ELSE 0,
   winsorizePercentile |-> args.winsorizePercentile,
   topTercileEmissions |-> result.topTercileEmissions,
   topTercileProfit |-> result.topTercileProfit,
   topTercileMarketCap |-> result.topTercileMarketCap,
   topTercilePeRatio |-> result.topTercilePeRatio,
   topTercileCompanyCount |-> result.topTercileCompanyCount,
   bottomTercileEmissions |-> result.bottomTercileEmissions,
   bottomTercileProfit |-> result.bottomTercileProfit,
   bottomTercileMarketCap |-> result.bottomTercileMarketCap,
   bottomTercilePeRatio |-> result.bottomTercilePeRatio,
   bottomTercileCompanyCount |-> result.bottomTercileCompanyCount,
   impliedCarbonPrice |-> result.impliedCarbonPrice]

\* the columns of the unique index upload_date_method_params_idx
cacheKey(row) ==
  <<row.uploadId, row.date, row.method, row.includeScope3, row.winsorize,
    row.winsorizePercentile>>

\* const chunkSize = 100
ChunkSize == 100

\* lines 88-95: the keys of tercilesByDate in insertion order
dateKeys(terciles) == Distinct([i \in 1..Len(terciles) |-> terciles[i].date])

\* tercilesByDate.get(dateKey)
tercilesOfDate(terciles, dateKey) == SelectSeq(terciles, LAMBDA t : t.date = dateKey)

\* lines 101-115: the index of the first date from index k on that has top
\* and bottom companies (the loop continues over the others without a
\* query), or the number of dates plus one
nextDateWithGroups(terciles, k) ==
  LET keys == dateKeys(terciles)
      with == {j \in k..Len(keys) :
                 /\ Len(tercileCompanyIds(tercilesOfDate(terciles, keys[j]), "top")) > 0
                 /\ Len(tercileCompanyIds(tercilesOfDate(terciles, keys[j]), "bottom")) > 0}
  IN IF with = {} THEN Len(keys) + 1 ELSE CHOOSE j \in with : \A i \in with : j <= i

\* the locals of a call that has not started
NoLocals ==
  [terciles |-> <<>>, dateIdx |-> 0, results |-> <<>>, cacheRecords |-> <<>>,
   chunkStart |-> 0, returned |-> NULL, error |-> "",
   cacheReads |-> 0, tercileReads |-> 0, timeSeriesReads |-> 0, inserts |-> 0,
   startedAfter |-> {}]

\* the callers of a specification are the domain of pc
Callers == DOMAIN pc

\* the call starts: getDb() (line 30)
StartCarbonPrice(c) ==
  /\ pc[c] = "idle"
  /\ pc' = [pc EXCEPT ![c] = "checkCache"]
  /\ ret' = [ret EXCEPT ![c].startedAfter =
               {d \in Callers : pc[d] = "done" /\ ret[d].error = ""}]
  /\ UNCHANGED <<call, db>>

\* lines 36-66: the cache query; a hit returns the cached rows
CheckCache(c) ==
  /\ pc[c] = "checkCache"
  /\ LET cached == SelectSeq(db.carbonPriceCache, LAMBDA row : cacheMatches(row, call[c]))
     IN IF Len(cached) > 0
        THEN /\ pc' = [pc EXCEPT ![c] = "done"]
             /\ ret' = [ret EXCEPT ![c].cacheReads = @ + 1,
                                   ![c].returned =
                                     Some([i \in 1..Len(cached) |-> cachedResult(cached[i])])]
        ELSE /\ pc' = [pc EXCEPT ![c] = "loadTerciles"]
             /\ ret' = [ret EXCEPT ![c].cacheReads = @ + 1]
  /\ UNCHANGED <<call, db>>

\* lines 246-256 once the loop over the dates has ended: the first chunk is
\* to be inserted, or the results are returned when there is nothing to cache
AfterDates(c, locals) ==
  IF Len(locals.cacheRecords) > 0
  THEN /\ pc' = [pc EXCEPT ![c] = "insertChunk"]
       /\ ret' = [ret EXCEPT ![c] = [locals EXCEPT !.chunkStart = 0]]
  ELSE /\ pc' = [pc EXCEPT ![c] = "done"]
       /\ ret' = [ret EXCEPT ![c] = [locals EXCEPT !.returned = Some(locals.results)]]

\* lines 101-126: the loop goes on to the next date that needs a query
ContinueDates(c, locals, k) ==
  LET next == nextDateWithGroups(locals.terciles, k)
  IN IF next <= Len(dateKeys(locals.terciles))
     THEN /\ pc' = [pc EXCEPT ![c] = "loadTimeSeries"]
          /\ ret' = [ret EXCEPT ![c] = [locals EXCEPT !.dateIdx = next]]
     ELSE AfterDates(c, locals)

\* lines 70-115: the tercile query
LoadTerciles(c) ==
  /\ pc[c] = "loadTerciles"
  /\ LET terciles == SelectSeq(db.companyTerciles, LAMBDA t : tercileMatches(t, call[c]))
         locals == [ret[c] EXCEPT !.terciles = terciles, !.tercileReads = @ + 1]
     IN IF Len(terciles) = 0
        THEN /\ pc' = [pc EXCEPT ![c] = "done"]
             /\ ret' = [ret EXCEPT ![c] = [locals EXCEPT !.returned = Some(<<>>)]]
        ELSE ContinueDates(c, locals, 1)
  /\ UNCHANGED <<call, db>>

\* lines 117-243: the time series query of a date and the result of the date
LoadTimeSeries(c) ==
  /\ pc[c] = "loadTimeSeries"
  /\ \E date \in {dateKeys(ret[c].terciles)[ret[c].dateIdx]} :
     LET args == call[c]
         topTsData == SelectSeq(db.timeSeries, LAMBDA ts : ts.date = date)
         result == dateResult(date, tercilesOfDate(ret[c].terciles, date), topTsData,
                              args.includeScope3, args.winsorize,
                              args.winsorizePercentile)
         locals ==
           IF result = NULL
           THEN [ret[c] EXCEPT !.timeSeriesReads = @ + 1]
           ELSE [ret[c] EXCEPT !.timeSeriesReads = @ + 1,
                               !.results = Append(@, result[1]),
                               !.cacheRecords = Append(@, cacheRecord(result[1], args))]
     IN ContinueDates(c, locals, ret[c].dateIdx + 1)
  /\ UNCHANGED <<call, db>>

\* lines 249-256: a chunk is inserted; the insert is rejected as a whole
\* when a row has the key of a stored row (unique index
\* upload_date_method_params_idx), and the call then throws
InsertChunk(c) ==
  /\ pc[c] = "insertChunk"
  /\ LET records == ret[c].cacheRecords
         i == ret[c].chunkStart
         chunk == SubSeq(records, i + 1, Min(i + ChunkSize, Len(records)))
         duplicate ==
           \E r \in ToSet(chunk), row \in ToSet(db.carbonPriceCache) :
             cacheKey(r) = cacheKey(row)
     IN IF duplicate
        THEN /\ pc' = [pc EXCEPT ![c] = "done"]
             /\ ret' = [ret EXCEPT ![c].error = "ER_DUP_ENTRY"]
             /\ UNCHANGED db
        ELSE /\ db' = [db EXCEPT !.carbonPriceCache = @ \o chunk]
             /\ IF i + ChunkSize < Len(records)
                THEN /\ pc' = [pc EXCEPT ![c] = "insertChunk"]
                     /\ ret' = [ret EXCEPT ![c].chunkStart = i + ChunkSize,
                                           ![c].inserts = @ + 1]
                ELSE /\ pc' = [pc EXCEPT ![c] = "done"]
                     /\ ret' = [ret EXCEPT ![c].inserts = @ + 1,
                                           ![c].returned = Some(ret[c].results)]
  /\ UNCHANGED call

(* Inputs of the total-based carbon price: a terciles table, a time series
   table and a cache. The market caps are 1..3, the profits -2..2 and the
   emissions of a row at most 3. *)
MaxSmallGroup == 2
MaxGroupSize == 11

SkippedDate == "2024-09-30"
LaterDate == "2024-12-31"
\* a date whose bottom company reports scope 3 emissions only, and a date
\* whose bottom company has no time series row
UnreportedDate == "2025-03-31"
UnobservedDate == "2025-06-30"

TsRow(companyId, date, marketCap, netProfit, scope1, scope2, scope3, priceEarnings) ==
  [companyId |-> companyId, date |-> date, marketCap |-> marketCap,
   netProfit |-> netProfit, scope1Emissions |-> scope1, scope2Emissions |-> scope2,
   scope3Emissions |-> scope3, priceEarnings |-> priceEarnings]

TercileRow(uploadId, companyId, date, method, includeScope3, tercileAssignment) ==
  [uploadId |-> uploadId, companyId |-> companyId, date |-> date, method |-> method,
   includeScope3 |-> includeScope3, tercileAssignment |-> tercileAssignment]

\* the rows of a small group: profitable, loss-making, without scope 1 and 2
\* emissions, and without a profit
TsProfiles ==
  {[marketCap |-> Some(3), netProfit |-> Some(1), scope1 |-> Some(1), scope2 |-> NULL,
    scope3 |-> Some(2), priceEarnings |-> Some(3)],
   [marketCap |-> Some(2), netProfit |-> Some(-2), scope1 |-> NULL, scope2 |-> Some(1),
    scope3 |-> NULL, priceEarnings |-> Some(-1)],
   [marketCap |-> Some(1), netProfit |-> Some(2), scope1 |-> Some(0), scope2 |-> NULL,
    scope3 |-> Some(1), priceEarnings |-> NULL],
   [marketCap |-> Some(3), netProfit |-> NULL, scope1 |-> Some(3), scope2 |-> Some(3),
    scope3 |-> Some(3), priceEarnings |-> Some(2)]}

\* the rows of a small bottom group
BottomProfiles == {q \in TsProfiles : q.scope1 # Some(0)}

\* company i (of the companies first + 1, first + 2, ...) with a profile
ProfileRows(first, date, profiles) ==
  [i \in 1..Len(profiles) |->
     TsRow(first + i, date, profiles[i].marketCap, profiles[i].netProfit,
           profiles[i].scope1, profiles[i].scope2, profiles[i].scope3,
           profiles[i].priceEarnings)]

\* a group of n companies whose values follow a pattern; one company in
\* eleven is an outlier
PatternRows(first, date, n, shift) ==
  [i \in 1..n |->
     TsRow(first + i, date,
           Some(1 + ((i + shift) % 3)),
           Some(IF (i + shift) % 11 = 0 THEN -2 ELSE ((i + 2 * shift) % 3)),
           Some((i + shift) % 2),
           IF i % 3 = 0 THEN Some(1) ELSE NULL,
           IF (i + shift) % 4 = 0 THEN Some(1) ELSE NULL,
           IF i % 5 = 0 THEN NULL ELSE Some(2 + ((i + shift) % 4)))]

\* the tercile rows of the companies of some time series rows
TercilesOf(rows, uploadId, method, includeScope3, assignment) ==
  [i \in 1..Len(rows) |->
     TercileRow(uploadId, rows[i].companyId, rows[i].date, method, includeScope3,
                assignment)]

\* the tables: the groups of the analysis date, a date without a bottom
\* group, a later date with one company a group (or none), the terciles of
\* another upload and of another method, and the rows of another date
CarbonTables(topRows, bottomRows, includeScope3, withLater) ==
  LET middle == ProfileRows(40, AnalysisDate, <<CHOOSE q \in TsProfiles : q.netProfit = Some(1)>>)
      laterTop ==
        IF withLater
        THEN <<TsRow(1, LaterDate, Some(2), Some(2), Some(2), NULL, Some(1), Some(1))>>
        ELSE <<>>
      laterBottom ==
        IF withLater
        THEN <<TsRow(21, LaterDate, Some(3), Some(1), NULL, Some(0), NULL, Some(3))>>
        ELSE <<>>
      skipped == <<TsRow(1, SkippedDate, Some(1), Some(1), Some(1), Some(1), NULL, NULL)>>
      other == <<TsRow(1, PreviousDate, Some(3), Some(2), Some(3), NULL, NULL, Some(2)),
                 TsRow(21, PreviousDate, Some(1), Some(2), Some(1), NULL, NULL, Some(1))>>
  IN [companyTerciles |->
        TercilesOf(bottomRows, 2, "absolute", includeScope3, "top")
          \o TercilesOf(topRows, 1, "absolute", includeScope3, "top")
          \o TercilesOf(middle, 1, "absolute", includeScope3, "middle")
          \o TercilesOf(bottomRows, 1, "absolute", includeScope3, "bottom")
          \o TercilesOf(topRows, 1, "sector_relative", includeScope3, "bottom")
          \o TercilesOf(topRows, 1, "absolute", 1 - includeScope3, "bottom")
          \o TercilesOf(skipped, 1, "absolute", includeScope3, "top")
          \o TercilesOf(laterTop, 1, "absolute", includeScope3, "top")
          \o TercilesOf(laterBottom, 1, "absolute", includeScope3, "bottom")
          \o TercilesOf(other, 2, "absolute", includeScope3, "bottom"),
      timeSeries |-> other \o topRows \o middle \o bottomRows \o skipped \o laterTop
                       \o laterBottom,
      carbonPriceCache |-> <<>>]

CarbonArgs(uploadId, includeScope3, winsorize, winsorizePercentile) ==
  [fn |-> "calculateTotalBasedCarbonPrice", uploadId |-> uploadId, method |-> "absolute",
   includeScope3 |-> includeScope3, winsorize |-> winsorize,
   winsorizePercentile |-> winsorizePercentile]

\* the percentiles of the calls with large groups
Percentiles == {5, 25, MaxPercentile}

\* small groups of every profile
CarbonSmall(callers) ==
  \E top \in SeqsUpTo(TsProfiles, MaxSmallGroup), bottom \in SeqsUpTo(BottomProfiles, MaxSmallGroup) :
    \E includeScope3 \in BOOLEAN, winsorize \in BOOLEAN :
      \E winsorizePercentile \in (IF winsorize THEN {MaxPercentile} ELSE {5}) :
        /\ call = [c \in callers |->
                     CarbonArgs(1, includeScope3, winsorize, winsorizePercentile)]
        /\ db = CarbonTables(ProfileRows(0, AnalysisDate, top),
                             ProfileRows(20, AnalysisDate, bottom),
                             IF includeScope3 THEN 1 ELSE 0, TRUE)

\* groups around the size from which the arrays are winsorized
CarbonLarge(callers) ==
  \E nTop \in 10..MaxGroupSize, nBottom \in 10..MaxGroupSize :
    \E shiftTop \in 0..1, shiftBottom \in 0..1 :
      \E includeScope3 \in BOOLEAN, winsorize \in BOOLEAN :
        \E winsorizePercentile \in (IF winsorize THEN Percentiles ELSE {5}) :
          /\ call = [c \in callers |->
                       CarbonArgs(1, includeScope3, winsorize, winsorizePercentile)]
          /\ db = CarbonTables(PatternRows(0, AnalysisDate, nTop, shiftTop),
                               PatternRows(20, AnalysisDate, nBottom, shiftBottom),
                               IF includeScope3 THEN 1 ELSE 0, TRUE)

InitCarbonPrice ==
  /\ pc = [c \in {1} |-> "idle"]
  /\ ret = [c \in {1} |-> NoLocals]
  /\ CarbonSmall({1}) \/ CarbonLarge({1})

NextCarbonPrice ==
  \E c \in Callers :
    \/ StartCarbonPrice(c)
    \/ CheckCache(c)
    \/ LoadTerciles(c)
    \/ LoadTimeSeries(c)
    \/ InsertChunk(c)

SpecCarbonPrice == InitCarbonPrice /\ [][NextCarbonPrice]_vars

(* Two calls with the same key that may overlap: each call is a chain of
   queries, and the queries of the two calls interleave in any order. *)
MaxCachedGroup == 1

\* an upload without terciles
UploadWithoutTerciles == 3

InitCarbonCache ==
  /\ pc = [c \in {1, 2} |-> "idle"]
  /\ ret = [c \in {1, 2} |-> NoLocals]
  /\ \E top \in SeqsUpTo(TsProfiles, MaxCachedGroup),
        bottom \in SeqsUpTo(BottomProfiles, MaxCachedGroup) :
       \E uploadId \in {1, UploadWithoutTerciles}, includeScope3 \in BOOLEAN,
          withLater \in BOOLEAN :
         /\ call = [c \in {1, 2} |-> CarbonArgs(uploadId, includeScope3, TRUE, 5)]
         /\ db = CarbonTables(ProfileRows(0, AnalysisDate, top),
                              ProfileRows(20, AnalysisDate, bottom),
                              IF includeScope3 THEN 1 ELSE 0, withLater)

SpecCarbonCache == InitCarbonCache /\ [][NextCarbonPrice]_vars

-----------------------------------------------------------------------------
(* Claims on the total-based carbon price *)

\* caller c has returned normally
CarbonReturned(c) == pc[c] = "done" /\ ret[c].returned # NULL

\* the results caller c has returned
ReturnedResults(c) == ToSet(ret[c].returned[1])

\* ((topProfit - topMarketCap / bottomPE) / topEmissions) * 1,000,000 with
\* bottomPE = bottomMarketCap / bottomProfit, from the fields of a result
PriceOfTotals(r) ==
  LET bottomPE == RDiv(r.bottomTercileMarketCap[1], r.bottomTercileProfit[1])
      adjusted == RDiv(r.topTercileMarketCap[1], bottomPE)
  IN RMul(RDiv(RSub(r.topTercileProfit[1], adjusted), r.topTercileEmissions[1]),
          RInt(1000000))

\* the bottom P/E of the totals is positive and so are the top emissions
PriceDefined(r) ==
  /\ RLess(RZero, r.bottomTercileProfit[1])
  /\ RLess(RZero, RDiv(r.bottomTercileMarketCap[1], r.bottomTercileProfit[1]))
  /\ RLess(RZero, r.topTercileEmissions[1])

\* C12: the implied price of a date is ((topTotalProfit - topTotalMarketCap /
\* bottomPE) / topTotalEmissions) * 1,000,000 with bottomPE =
\* bottomTotalMarketCap / bottomTotalProfit when bottomPE > 0 and the top
\* emissions are > 0; it is exactly 0 when the bottom total profit is <= 0 or
\* the top total emissions are <= 0; it is not clamped otherwise
C12_TotalBasedPrice ==
  CarbonReturned(1) =>
    \A r \in ReturnedResults(1) :
      /\ PriceDefined(r) => r.impliedCarbonPrice = <<PriceOfTotals(r)>>
      /\ (RLeq(r.bottomTercileProfit[1], RZero) \/ RLeq(r.topTercileEmissions[1], RZero))
           => r.impliedCarbonPrice = JsZero

\* a call has returned a negative price, a positive price on another date
C12_Witness ==
  /\ CarbonReturned(1)
  /\ \E r, q \in ReturnedResults(1) :
       /\ PriceDefined(r) /\ RLess(r.impliedCarbonPrice[1], RZero)
       /\ PriceDefined(q) /\ RLess(RZero, q.impliedCarbonPrice[1])

\* a call has returned a price of 0 for a bottom group without a profit
C12_WitnessZero ==
  /\ CarbonReturned(1)
  /\ \E r \in ReturnedResults(1) :
       /\ RLeq(r.bottomTercileProfit[1], RZero)
       /\ RLess(RZero, r.topTercileEmissions[1])
       /\ r.impliedCarbonPrice = JsZero

\* the result of a date of caller c's call had the flag been as given
ResultWithFlag(c, date, winsorize) ==
  dateResult(date,
             SelectSeq(db.companyTerciles,
                       LAMBDA t : tercileMatches(t, call[c]) /\ t.date = date),
             SelectSeq(db.timeSeries, LAMBDA ts : ts.date = date),
             call[c].includeScope3, winsorize, call[c].winsorizePercentile)[1]

TopTotals(r) ==
  <<r.topTercileMarketCap, r.topTercileProfit, r.topTercileEmissions, r.topTercilePeRatio>>

BottomTotals(r) ==
  <<r.bottomTercileMarketCap, r.bottomTercileProfit, r.bottomTercileEmissions,
    r.bottomTercilePeRatio>>

\* the market caps of the valid rows of a group of a date
ValidMarketCaps(c, date, assignment) ==
  LET ids == {t.companyId : t \in {t \in ToSet(db.companyTerciles) :
                /\ tercileMatches(t, call[c])
                /\ t.date = date
                /\ t.tercileAssignment = assignment}}
      rows == validTs(SelectSeq(db.timeSeries,
                                LAMBDA ts : ts.date = date /\ ts.companyId \in ids))
  IN [i \in 1..Len(rows) |-> Num(rows[i].marketCap[1])]

\* C13: a group with 10 or fewer valid members is not winsorized: its total
\* market cap, profit, emissions and P/E are the same with winsorize = true
\* as with winsorize = false, for every percentile
C13_SmallGroupsNotWinsorized ==
  (CarbonReturned(1) /\ call[1].winsorize) =>
    \A r \in ReturnedResults(1) :
      /\ r.topTercileCompanyCount <= 10 =>
           TopTotals(r) = TopTotals(ResultWithFlag(1, r.date, FALSE))
      /\ r.bottomTercileCompanyCount <= 10 =>
           BottomTotals(r) = BottomTotals(ResultWithFlag(1, r.date, FALSE))

\* a call with the flag set has returned a date whose top group of 10 has
\* market caps that winsorizing changes, and whose bottom group of more
\* than 10 is winsorized
C13_Witness ==
  /\ CarbonReturned(1)
  /\ call[1].winsorize
  /\ \E r \in ReturnedResults(1) :
       /\ r.topTercileCompanyCount = 10
       /\ LET caps == ValidMarketCaps(1, r.date, "top")
          IN winsorizeArray(caps, call[1].winsorizePercentile) # caps
       /\ r.bottomTercileCompanyCount > 10
       /\ BottomTotals(r) # BottomTotals(ResultWithFlag(1, r.date, FALSE))

\* caller c started after caller d had returned
StartedAfter(c, d) == pc[c] # "idle" /\ d \in ret[c].startedAfter

\* C14: the cache is a pure memo: a call with the key of a call that has
\* returned before it started reads no terciles and no time series, writes
\* nothing, and returns the same dates with the same field values
C14_CachePureMemo ==
  \A c, d \in Callers :
    StartedAfter(c, d) =>
      /\ ret[c].tercileReads = 0
      /\ ret[c].timeSeriesReads = 0
      /\ ret[c].inserts = 0
      /\ CarbonReturned(c) => ReturnedResults(c) = ReturnedResults(d)

\* a second call has answered from the cache what the first call computed
C14_CacheHit ==
  \E c, d \in Callers :
    /\ StartedAfter(c, d)
    /\ CarbonReturned(c)
    /\ ret[c].tercileReads = 0
    /\ ret[d].inserts > 0
    /\ ReturnedResults(c) = ReturnedResults(d)
    /\ ReturnedResults(c) # {}

\* C15: two calls with the same key that both miss the cache both complete
\* without error and return the same records, and the cache then holds one
\* set of rows for the key
C15_ConcurrentMissesComplete ==
  (\A c \in Callers : pc[c] = "done" /\ ret[c].tercileReads > 0) =>
    /\ \A c \in Callers : ret[c].error = "" /\ CarbonReturned(c)
    /\ \A c, d \in Callers : ret[c].returned = ret[d].returned
    /\ \A i, j \in 1..Len(db.carbonPriceCache) :
         cacheKey(db.carbonPriceCache[i]) = cacheKey(db.carbonPriceCache[j]) => i = j

\* both calls have missed the cache and computed the same records; the
\* insert of one of them was rejected
C15_SecondInsertRejected ==
  /\ \A c \in Callers : pc[c] = "done" /\ ret[c].tercileReads > 0
  /\ \E c, d \in Callers :
       /\ ret[c].error = "ER_DUP_ENTRY"
       /\ CarbonReturned(d)
       /\ ret[d].results = ret[c].results
       /\ ToSet(db.carbonPriceCache) =
            {cacheRecord(ret[d].results[i], call[d]) : i \in 1..Len(ret[d].results)}

-----------------------------------------------------------------------------
(* calculateCarbonIntensity of the analyzer on its own *)
MaxScope == 2
MaxMarketCap == 3

\* null or an amount of emissions
Scopes == {NULL} \cup {Some(e) : e \in 0..MaxScope}

\* null, or a market cap in dollars: negative, zero, a few dollars or a
\* few million dollars
MarketCaps ==
  {NULL} \cup {Some(m * scale) : m \in (-1)..MaxMarketCap, scale \in {1, 1000000}}

InitIntensity ==
  /\ pc = "start"
  /\ ret = NULL
  /\ db = <<>>
  /\ \E scope1 \in Scopes, scope2 \in Scopes, scope3 \in Scopes :
       \E marketCap \in MarketCaps, includeScope3 \in BOOLEAN :
         call = [fn |-> "calculateCarbonIntensity", scope1 |-> scope1,
                 scope2 |-> scope2, scope3 |-> scope3, marketCap |-> marketCap,
                 includeScope3 |-> includeScope3]

CalculateCarbonIntensity ==
  /\ pc = "start"
  /\ call.fn = "calculateCarbonIntensity"
  /\ ret' = calculateCarbonIntensity(call.scope1, call.scope2, call.scope3,
                                     call.marketCap, call.includeScope3)
  /\ pc' = "done"
  /\ UNCHANGED <<call, db>>

NextIntensity == CalculateCarbonIntensity

SpecIntensity == InitIntensity /\ [][NextIntensity]_vars

IntensityDone == pc = "done" /\ call.fn = "calculateCarbonIntensity"

\* scope1 + scope2 + scope3-if-included with each null scope counted as 0
CountedEmissions ==
  (IF call.scope1 = NULL THEN 0 ELSE call.scope1[1])
    + (IF call.scope2 = NULL THEN 0 ELSE call.scope2[1])
    + (IF call.includeScope3 /\ call.scope3 # NULL THEN call.scope3[1] ELSE 0)

\* C17: calculateCarbonIntensity returns null exactly when the market cap is
\* null or <= 0; otherwise it returns (scope1 + scope2 + scope3-if-included)
\* / (marketCap / 1,000,000) with each null scope counted as 0, so 0 and not
\* null when every scope is null or zero
C17_IntensityNullOnlyWithoutMarketCap ==
  IntensityDone =>
    /\ ret = NULL <=> (call.marketCap = NULL \/ call.marketCap[1] <= 0)
    /\ ret # NULL =>
         ret[1] = RDiv(RInt(CountedEmissions),
                       RDiv(RInt(call.marketCap[1]), RInt(1000000)))
    /\ (ret # NULL /\ CountedEmissions = 0) => ret = Some(RZero)

\* a company with a market cap and no emissions at all has the intensity 0
C17_Witness ==
  /\ IntensityDone
  /\ call.marketCap # NULL /\ call.marketCap[1] > 0
  /\ call.scope1 = NULL /\ call.scope2 = Some(0) /\ call.scope3 = NULL
  /\ ret = Some(RZero)

-----------------------------------------------------------------------------
(* calculateImpliedDecarbRate. The price and the rate are exact rationals;
   the doubles of the code take the values 0.02, 0.04 and 0.07 exactly at
   the breakpoints. *)

\* the rate without the cap above $200/tCO2
calculateImpliedDecarbRateUncapped(price) ==
  IF RLeq(price, RZero) THEN RZero
  ELSE IF RLeqInt(price, 50)
  THEN RMul(RDiv(price, RInt(50)), Rat(2, 100))
  ELSE IF RLeqInt(price, 100)
  THEN RAdd(Rat(2, 100), RMul(RDiv(RSub(price, RInt(50)), RInt(50)), Rat(2, 100)))
  ELSE IF RLeqInt(price, 200)
  THEN RAdd(Rat(4, 100), RMul(RDiv(RSub(price, RInt(100)), RInt(100)), Rat(3, 100)))
  ELSE RAdd(Rat(7, 100), RMul(RDiv(RSub(price, RInt(200)), RInt(200)), Rat(1, 100)))

calculateImpliedDecarbRate(price) ==
  IF RLeq(price, RZero) THEN RZero
  ELSE IF RLeqInt(price, 50)
  THEN RMul(RDiv(price, RInt(50)), Rat(2, 100))
  ELSE IF RLeqInt(price, 100)
  THEN RAdd(Rat(2, 100), RMul(RDiv(RSub(price, RInt(50)), RInt(50)), Rat(2, 100)))
  ELSE IF RLeqInt(price, 200)
  THEN RAdd(Rat(4, 100), RMul(RDiv(RSub(price, RInt(100)), RInt(100)), Rat(3, 100)))
  ELSE LET above ==
             RAdd(Rat(7, 100),
                  RMul(RDiv(RSub(price, RInt(200)), RInt(200)), Rat(1, 100)))
       IN IF RLess(above, Rat(7, 100)) THEN above ELSE Rat(7, 100)

\* the prices are the multiples of 2.5 from -5 to 2.5 * MaxPriceStep, and
\* three prices far outside
MaxPriceStep == 84

Prices ==
  {Rat(5 * k, 2) : k \in (-2)..MaxPriceStep} \cup {RInt(-1000), RInt(500), RInt(100000)}

InitDecarbRate ==
  /\ pc = "start"
  /\ ret = <<>>
  /\ db = <<>>
  /\ \E lower \in Prices, higher \in Prices :
       call = [fn |-> "calculateImpliedDecarbRate", prices |-> <<lower, higher>>]

\* the function is applied to the next price of the call
CalculateImpliedDecarbRate ==
  /\ pc = "start"
  /\ call.fn = "calculateImpliedDecarbRate"
  /\ ret' = Append(ret, calculateImpliedDecarbRate(call.prices[Len(ret) + 1]))
  /\ pc' = IF Len(ret) + 1 = Len(call.prices) THEN "done" ELSE "start"
  /\ UNCHANGED <<call, db>>

NextDecarbRate == CalculateImpliedDecarbRate

SpecDecarbRate == InitDecarbRate /\ [][NextDecarbRate]_vars

DecarbRateDone == pc = "done" /\ call.fn = "calculateImpliedDecarbRate"

\* C18: calculateImpliedDecarbRate is a monotonically non-decreasing map of
\* the price into [0, 0.07]: 0 for every price <= 0, 0.02, 0.04 and 0.07 at
\* the breakpoints 50, 100 and 200, and exactly 0.07 for every price above 200
C18_DecarbRateMonotone ==
  DecarbRateDone =>
    /\ \A i \in 1..2 :
         /\ RLeq(RZero, ret[i]) /\ RLeq(ret[i], Rat(7, 100))
         /\ RLeq(call.prices[i], RZero) => ret[i] = RZero
         /\ call.prices[i] = RInt(50) => ret[i] = Rat(2, 100)
         /\ call.prices[i] = RInt(100) => ret[i] = Rat(4, 100)
         /\ call.prices[i] = RInt(200) => ret[i] = Rat(7, 100)
         /\ RLess(RInt(200), call.prices[i]) => ret[i] = Rat(7, 100)
    /\ RLeq(call.prices[1], call.prices[2]) => RLeq(ret[1], ret[2])

\* the rate grows up to the breakpoint 200 and stays at 0.07 beyond it
C18_Witness ==
  /\ DecarbRateDone
  /\ ( \/ /\ RLess(RInt(100), call.prices[1]) /\ RLess(call.prices[1], RInt(200))
          /\ call.prices[2] = RInt(200)
          /\ RLess(Rat(4, 100), ret[1]) /\ RLess(ret[1], ret[2])
       \/ /\ call.prices[1] = RInt(200) /\ RLess(RInt(200), call.prices[2])
          /\ ret[1] = ret[2] )

-----------------------------------------------------------------------------
(* analyzePortfolio and runFullAnalysis. A call returns a value or throws;
   ret is [error, value] with error = "" for a normal return. *)

investmentTypes == <<"low_carbon", "decarbonizing", "solutions">>

\* classification[investmentType === 'low_carbon' ? 'lowCarbon' : investmentType]
climateCompaniesOf(classification, investmentType) ==
  CASE investmentType = "low_carbon" -> classification.lowCarbon
    [] investmentType = "decarbonizing" -> classification.decarbonizing
    [] investmentType = "solutions" -> classification.solutions

\* lines 406-419: the methodology 'dcf' or, for every other string, the
\* relative one
valuationOf(parameters, climateMetrics, baselineMetrics) ==
  IF parameters.methodology = "dcf"
  THEN calculateImpliedCarbonPriceDCF(climateMetrics, baselineMetrics)
  ELSE calculateCarbonRiskDiscount(climateMetrics, baselineMetrics)

\* lines 421-435: the row of a portfolio with its metrics and valuation
portfolioRow(investmentType, date, parameters, sector, geography, climateCompanies, climateMetrics, valuation) ==
  [date |-> date,
   investmentType |-> investmentType,
   geography |-> geography,
   sector |-> sector,
   avgCarbonIntensity |-> climateMetrics.avgCarbonIntensity,
   avgPeRatio |-> climateMetrics.avgPeRatio,
   carbonRiskDiscount |-> valuation.carbonRiskDiscount,
   impliedCarbonPrice |-> valuation.impliedCarbonPrice,
   impliedDecarbRate |-> calculateImpliedDecarbRate(valuation.impliedCarbonPrice),
   portfolioSize |-> climateMetrics.portfolioSize,
   companies |-> climateCompanies,
   methodology |-> parameters.methodology]

\* lines 400-435: null without metrics of both portfolios
portfolioOfMetrics(investmentType, date, parameters, sector, geography, climateCompanies, climateMetrics, baselineMetrics) ==
  IF climateMetrics = NULL \/ baselineMetrics = NULL THEN NULL
  ELSE Some(portfolioRow(investmentType, date, parameters, sector, geography,
                         climateCompanies, climateMetrics[1],
                         valuationOf(parameters, climateMetrics[1], baselineMetrics[1])))

\* lines 384-435: null when a list is empty
portfolioOfLists(investmentType, companiesWithData, date, parameters, sector, geography, climateCompanies, baselineCompanies) ==
  IF Len(climateCompanies) = 0 \/ Len(baselineCompanies) = 0 THEN NULL
  ELSE portfolioOfMetrics(investmentType, date, parameters, sector, geography,
                          climateCompanies,
                          calculatePortfolioMetrics(climateCompanies, companiesWithData,
                                                    date, parameters.includeScope3),
                          calculatePortfolioMetrics(baselineCompanies, companiesWithData,
                                                    date, parameters.includeScope3))

\* lines 380-435: the portfolio of a classification
portfolioOfClassification(investmentType, companiesWithData, date, parameters, sector, geography, classification) ==
  portfolioOfLists(investmentType, companiesWithData, date, parameters, sector,
                   geography, climateCompaniesOf(classification, investmentType),
                   classification.baseline)

\* the sector argument is not used by the classification
analyzePortfolio(investmentType, companiesWithData, date, parameters, sector, geography) ==
  portfolioOfClassification(investmentType, companiesWithData, date, parameters, sector,
                            geography,
                            classifyCompaniesSectorRelative(companiesWithData, date,
                                                            parameters, geography))

\* the regions of the geographies, every one of them
allRegions(dimensions) ==
  IF dimensions.geographies = NULL THEN <<>>
  ELSE [i \in 1..Len(dimensions.geographies[1]) |->
          mapGeographyToRegion(Some(dimensions.geographies[1][i]))]

\* lines 461-462: Array.from(new Set(regions))
uniqueRegions(dimensions) ==
  IF dimensions.geographies = NULL THEN <<>>
  ELSE Distinct([i \in 1..Len(dimensions.geographies[1]) |->
                   mapGeographyToRegion(Some(dimensions.geographies[1][i]))])

\* a result that is pushed when it is not null
Pushed(result) == IF result = NULL THEN <<>> ELSE <<result[1]>>

\* the dimensions of a date and investment type in the order of the loops:
\* the aggregate, every sector, every region
dimensionsOf(sectors, regions) ==
  <<[sector |-> NULL, geography |-> NULL]>>
    \o [i \in 1..Len(sectors) |-> [sector |-> Some(sectors[i]), geography |-> NULL]]
    \o [i \in 1..Len(regions) |-> [sector |-> NULL, geography |-> Some(regions[i])]]

\* lines 464-507
runFullAnalysis(companiesWithData, dates, parameters, dimensions) ==
  LET analyzed ==
        dimensionsOf(IF dimensions.sectors = NULL THEN <<>> ELSE dimensions.sectors[1],
                     uniqueRegions(dimensions))
  IN Flatten([d \in 1..Len(dates) |->
       Flatten([t \in 1..Len(investmentTypes) |->
         Flatten([i \in 1..Len(analyzed) |->
           Pushed(analyzePortfolio(investmentTypes[t], companiesWithData, dates[d],
                                   parameters, analyzed[i].sector,
                                   analyzed[i].geography))])])])

MaxAnalysisCompanies == 4
MaxDates == 2

\* the methodology strings of a call: the two of the type and another one
Methodologies == {"relative", "dcf", "npv"}

AnalysisParameters ==
  [includeScope3 : BOOLEAN, methodology : Methodologies, sectorGranularity : {"sector"}]

\* lists of dates without a repeated date
DateLists ==
  {dates \in SeqsUpTo({AnalysisDate, PreviousDate, LaterDate}, MaxDates) :
     \A i, j \in 1..Len(dates) : dates[i] = dates[j] => i = j}

\* no dimension, empty dimensions, two sectors with three geographies, two
\* of them of one region, and the names of regions as the analyze endpoint
\* passes them (routers.ts:179-180)
Dimensions ==
  {[sectors |-> NULL, geographies |-> NULL],
   [sectors |-> Some(<<>>), geographies |-> Some(<<>>)],
   [sectors |-> Some(<<"Energy", "Tech">>),
    geographies |-> Some(<<"US", "Germany", "CA">>)],
   [sectors |-> Some(<<>>), geographies |-> Some(<<"North America", "Europe">>)]}

\* companies of one sector whose attribute of the axis is drawn freely
AnalysisCompanies(n, axis, levels) ==
  CompanyList(n, [i \in 1..n |-> Some("Energy")], axis, levels)

\* the companies of the patterns, in two sectors
PatternCompanies ==
  CompanyList(MaxDenseCompanies,
              [i \in 1..MaxDenseCompanies |->
                 Cyclic(CHOOSE pattern \in SectorPatterns : pattern[2] # NULL, i)],
              "none", [i \in 1..MaxDenseCompanies |-> 1])

RunCall(companiesWithData, dates, parameters, dimensions) ==
  [fn |-> "runFullAnalysis", companiesWithData |-> companiesWithData,
   dates |-> dates, parameters |-> parameters, dimensions |-> dimensions]

\* runs at the analysis date over freely drawn companies
InitRunFree ==
  \E n \in 0..MaxAnalysisCompanies, axis \in Axes :
    \E levels \in [1..n -> 1..3], parameters \in AnalysisParameters :
      call = RunCall(AnalysisCompanies(n, axis, levels), <<AnalysisDate>>, parameters,
                     CHOOSE d \in Dimensions : d.sectors # NULL /\ d.sectors # Some(<<>>))

\* runs over the companies of the patterns for every list of dates and
\* every dimension
InitRunPattern ==
  \E dates \in DateLists, parameters \in AnalysisParameters, dimensions \in Dimensions :
    call = RunCall(PatternCompanies, dates, parameters, dimensions)

\* single calls of analyzePortfolio
InitAnalyze ==
  \E n \in {3}, axis \in Axes, investmentType \in ToSet(investmentTypes) :
    \E levels \in [1..n -> 1..3], parameters \in AnalysisParameters :
      \E geography \in {NULL, Some("North America"), Some("Europe")} :
        call = [fn |-> "analyzePortfolio", investmentType |-> investmentType,
                companiesWithData |-> AnalysisCompanies(n, axis, levels),
                date |-> AnalysisDate, parameters |-> parameters,
                sector |-> NULL, geography |-> geography]

InitAnalysis ==
  /\ pc = "call"
  /\ ret = [error |-> "", value |-> NULL]
  /\ db = <<>>
  /\ (InitRunFree \/ InitRunPattern \/ InitAnalyze)

AnalyzePortfolio ==
  /\ pc = "call"
  /\ call.fn = "analyzePortfolio"
  /\ ret' = [error |-> "",
             value |-> analyzePortfolio(call.investmentType, call.companiesWithData,
                                        call.date, call.parameters, call.sector,
                                        call.geography)]
  /\ pc' = "done"
  /\ UNCHANGED <<call, db>>

RunFullAnalysis ==
  /\ pc = "call"
  /\ call.fn = "runFullAnalysis"
  /\ ret' = [error |-> "",
             value |-> runFullAnalysis(call.companiesWithData, call.dates,
                                       call.parameters, call.dimensions)]
  /\ pc' = "done"
  /\ UNCHANGED <<call, db>>

NextAnalysis == AnalyzePortfolio \/ RunFullAnalysis

SpecAnalysis == InitAnalysis /\ [][NextAnalysis]_vars

-----------------------------------------------------------------------------
(* Claims on analyzePortfolio and runFullAnalysis *)

RunDone == pc = "done" /\ call.fn = "runFullAnalysis"

\* the (date, investment type, dimension) combinations of a run: the
\* aggregate, every sector and every region of the geographies
Combinations ==
  LET sectors ==
        IF call.dimensions.sectors = NULL THEN {} ELSE ToSet(call.dimensions.sectors[1])
      regions ==
        IF call.dimensions.geographies = NULL THEN {}
        ELSE {mapGeographyToRegion(Some(g)) : g \in ToSet(call.dimensions.geographies[1])}
      dimensions ==
        {[sector |-> NULL, geography |-> NULL]}
          \cup {[sector |-> Some(x), geography |-> NULL] : x \in sectors}
          \cup {[sector |-> NULL, geography |-> Some(r)] : r \in regions}
  IN {[date |-> d, investmentType |-> t, sector |-> x.sector, geography |-> x.geography] :
        d \in ToSet(call.dates), t \in ToSet(investmentTypes), x \in dimensions}

\* the climate list and the baseline list of a combination
ClimateList(combination) ==
  climateCompaniesOf(classifyCompaniesSectorRelative(call.companiesWithData,
                                                     combination.date, call.parameters,
                                                     combination.geography),
                     combination.investmentType)

BaselineList(combination) ==
  classifyCompaniesSectorRelative(call.companiesWithData, combination.date,
                                  call.parameters, combination.geography).baseline

MetricsOf(companyIds, combination) ==
  calculatePortfolioMetrics(companyIds, call.companiesWithData, combination.date,
                            call.parameters.includeScope3)

\* both lists are non-empty and both have metrics
HasResult(combination) ==
  /\ Len(ClimateList(combination)) > 0
  /\ Len(BaselineList(combination)) > 0
  /\ MetricsOf(ClimateList(combination), combination) # NULL
  /\ MetricsOf(BaselineList(combination), combination) # NULL

\* the rows of the output for a combination
RowsOf(combination) ==
  {i \in 1..Len(ret.value) :
     /\ ret.value[i].date = combination.date
     /\ ret.value[i].investmentType = combination.investmentType
     /\ ret.value[i].sector = combination.sector
     /\ ret.value[i].geography = combination.geography}

\* C16: runFullAnalysis returns normally for every list of dates, sectors
\* and regions, and its output holds a row for a (date, investment type,
\* dimension) combination exactly when the climate list and the baseline
\* list of the combination are both non-empty and calculatePortfolioMetrics
\* is non-null for both; every other combination is omitted
C16_RowsExactlyForNonEmptyCombinations ==
  RunDone =>
    /\ ret.error = ""
    /\ \A combination \in Combinations :
         Cardinality(RowsOf(combination)) = IF HasResult(combination) THEN 1 ELSE 0
    /\ \A i \in 1..Len(ret.value) :
         \E combination \in Combinations : i \in RowsOf(combination)

\* a run has a row for a combination, omits a combination without climate
\* companies, and omits a combination whose lists are both non-empty but
\* whose climate list has no metrics
C16_Witness ==
  /\ RunDone
  /\ \E kept \in Combinations :
       kept.geography # NULL /\ RowsOf(kept) # {} /\ HasResult(kept)
  /\ \E empty \in Combinations :
       RowsOf(empty) = {} /\ Len(ClimateList(empty)) = 0
  /\ \E blank \in Combinations :
       /\ RowsOf(blank) = {}
       /\ Len(ClimateList(blank)) > 0 /\ Len(BaselineList(blank)) > 0
       /\ MetricsOf(ClimateList(blank), blank) = NULL

AnalysisDone == pc = "done" /\ call.fn \in {"analyzePortfolio", "runFullAnalysis"}

\* the call has produced no result row
NoResultRow ==
  IF call.fn = "runFullAnalysis" THEN ret.value = <<>> \/ ret.value = NULL
  ELSE ret.value = NULL

\* C19: analyzePortfolio (and so runFullAnalysis) called with a methodology
\* string other than 'relative' or 'dcf' aborts the run with an error and
\* produces no result row
C19_UnknownMethodologyAborts ==
  (AnalysisDone /\ call.parameters.methodology \notin {"relative", "dcf"}) =>
    (ret.error # "" /\ NoResultRow)

\* a call with another methodology string has returned a row that carries
\* the string and the price of the relative methodology
C19_FallsBackToRelative ==
  /\ pc = "done"
  /\ call.fn = "analyzePortfolio"
  /\ call.parameters.methodology \notin {"relative", "dcf"}
  /\ ret.error = ""
  /\ ret.value # NULL
  /\ ret.value[1].methodology = call.parameters.methodology
  /\ ret.value[1].impliedCarbonPrice # RZero
  /\ ret.value[1] =
       [analyzePortfolio(call.investmentType, call.companiesWithData, call.date,
                         [call.parameters EXCEPT !.methodology = "relative"],
                         call.sector, call.geography)[1]
          EXCEPT !.methodology = call.parameters.methodology]

-----------------------------------------------------------------------------
(* analysis.analyze of the router: a run reads the companies, computes the
   results, deletes the stored results of the upload and inserts the new
   ones one by one. Runs of several requests interleave at the queries. *)

\* the dates of the model in ascending order
Calendar == <<PreviousDate, AnalysisDate, SkippedDate, LaterDate>>

\* routers.ts 164-170: the dates of the time series, ascending
analysisDates(companiesWithData) ==
  SelectSeq(Calendar,
            LAMBDA d : \E c \in ToSet(companiesWithData) :
                         \E ts \in ToSet(c.timeSeries) : ts.date = d)

\* routers.ts 173-174: the sectors (or industries) of the companies
analysisSectors(companiesWithData, parameters) ==
  LET values == SelectSeq([i \in 1..Len(companiesWithData) |->
                             sectorValue(companiesWithData[i], parameters)],
                          LAMBDA v : v # NULL /\ v # Some(""))
  IN Distinct([i \in 1..Len(values) |-> values[i][1]])

\* routers.ts 175-176: the regions of the geographies of the companies
analysisGeographies(companiesWithData) ==
  LET values == SelectSeq([i \in 1..Len(companiesWithData) |->
                             companiesWithData[i].company.geography],
                          LAMBDA v : v # NULL /\ v # Some(""))
      rawGeographies == Distinct([i \in 1..Len(values) |-> values[i][1]])
  IN Distinct([i \in 1..Len(rawGeographies) |->
                 mapGeographyToRegion(Some(rawGeographies[i]))])

\* routers.ts 179-184
analyzeResults(companiesWithData, parameters) ==
  runFullAnalysis(companiesWithData, analysisDates(companiesWithData), parameters,
                  [sectors |-> Some(analysisSectors(companiesWithData, parameters)),
                   geographies |-> Some(analysisGeographies(companiesWithData))])

\* routers.ts 191-203: the row of a result
analysisRow(uploadId, result) ==
  [uploadId |-> uploadId,
   investmentType |-> result.investmentType,
   date |-> result.date,
   geography |-> result.geography,
   sector |-> result.sector,
   avgCarbonIntensity |-> result.avgCarbonIntensity,
   avgPeRatio |-> result.avgPeRatio,
   valuationPremium |-> result.carbonRiskDiscount,
   impliedCarbonPrice |-> result.impliedCarbonPrice,
   impliedDecarbRate |-> result.impliedDecarbRate,
   portfolioSize |-> result.portfolioSize]

\* the companies of the database: three companies of one sector, one of
\* them decarbonizing
StoredCompanies == AnalysisCompanies(3, "score", <<1, 2, 3>>)

\* parameters the input schema lets through
RunParameters ==
  {[includeScope3 |-> FALSE, methodology |-> "relative", sectorGranularity |-> "sector"],
   [includeScope3 |-> TRUE, methodology |-> "dcf", sectorGranularity |-> "sector"]}

\* the requests that run at a time, and the runs of each of them
Requests == {1, 2}
MaxRuns == 2

\* a stored row of another upload
OtherUploadRow ==
  [uploadId |-> 2, investmentType |-> "low_carbon", date |-> AnalysisDate,
   geography |-> NULL, sector |-> NULL, avgCarbonIntensity |-> ROne,
   avgPeRatio |-> ROne, valuationPremium |-> RZero, impliedCarbonPrice |-> RZero,
   impliedDecarbRate |-> RZero, portfolioSize |-> 1]

InitAnalyzeRuns ==
  /\ pc = [r \in Requests |-> "idle"]
  /\ call = [r \in Requests |-> NULL]
  /\ ret = [r \in Requests |-> [results |-> <<>>, inserted |-> 0, runs |-> 0]]
  /\ db = [analysisResults |-> <<OtherUploadRow>>]

\* routers.ts 151-184: a request arrives; the companies are read and the
\* results are computed
StartAnalyze(r) ==
  /\ pc[r] \in {"idle", "done"}
  /\ ret[r].runs < MaxRuns
  /\ \E parameters \in RunParameters :
       /\ call' = [call EXCEPT ![r] =
                     [fn |-> "analyze", uploadId |-> 1, parameters |-> parameters]]
       /\ ret' = [ret EXCEPT ![r] =
                    [results |-> analyzeResults(StoredCompanies, parameters),
                     inserted |-> 0, runs |-> ret[r].runs + 1]]
  /\ pc' = [pc EXCEPT ![r] = "delete"]
  /\ UNCHANGED db

\* routers.ts 187 and db.ts 288-293
DeleteAnalysisResultsByUpload(r) ==
  /\ pc[r] = "delete"
  /\ db' = [db EXCEPT !.analysisResults =
              SelectSeq(@, LAMBDA row : row.uploadId # call[r].uploadId)]
  /\ pc' = [pc EXCEPT ![r] = IF Len(ret[r].results) = 0 THEN "done" ELSE "insert"]
  /\ UNCHANGED <<call, ret>>

\* routers.ts 190-204 and db.ts 249-254: the next result is inserted; after
\* the last one the request returns
InsertAnalysisResult(r) ==
  /\ pc[r] = "insert"
  /\ db' = [db EXCEPT !.analysisResults =
              Append(@, analysisRow(call[r].uploadId, ret[r].results[ret[r].inserted + 1]))]
  /\ ret' = [ret EXCEPT ![r].inserted = @ + 1]
  /\ pc' = [pc EXCEPT ![r] =
              IF ret[r].inserted + 1 = Len(ret[r].results) THEN "done" ELSE "insert"]
  /\ UNCHANGED call

NextAnalyzeRuns ==
  \E r \in Requests :
    \/ StartAnalyze(r)
    \/ DeleteAnalysisResultsByUpload(r)
    \/ InsertAnalysisResult(r)

SpecAnalyzeRuns == InitAnalyzeRuns /\ [][NextAnalyzeRuns]_vars

\* no analyze run is in progress
NoRunInProgress == \A r \in Requests : pc[r] \in {"idle", "done"}

\* the stored rows of the upload of the runs
StoredRows == SelectSeq(db.analysisResults, LAMBDA row : row.uploadId = 1)

\* the rows a request has produced in its last run
ProducedRows(r) ==
  [i \in 1..Len(ret[r].results) |-> analysisRow(1, ret[r].results[i])]

\* C20: whenever no analyze run for the upload is in progress, its stored
\* rows are exactly the rows produced by one single run, with at most one
\* row per (date, investment type, sector, geography), also when runs
\* overlap in time
C20_ResultsReplacedWholesale ==
  NoRunInProgress =>
    /\ \/ \A r \in Requests : ret[r].runs = 0
       \/ \E r \in Requests : ret[r].runs > 0 /\ StoredRows = ProducedRows(r)
    /\ \A i, j \in 1..Len(StoredRows) :
         ( /\ StoredRows[i].date = StoredRows[j].date
           /\ StoredRows[i].investmentType = StoredRows[j].investmentType
           /\ StoredRows[i].sector = StoredRows[j].sector
           /\ StoredRows[i].geography = StoredRows[j].geography ) => i = j

\* two runs one after the other leave the rows of the second run
C20_SequentialRunsReplace ==
  /\ NoRunInProgress
  /\ ret[1].runs = 1 /\ ret[2].runs = 1
  /\ ProducedRows(1) # ProducedRows(2)
  /\ StoredRows = ProducedRows(2)
  /\ Len(StoredRows) > 0
  /\ Len(db.analysisResults) = Len(StoredRows) + 1


-----------------------------------------------------------------------------
(* The region filter of the classifier *)

MaxRegionCompanies == 5

\* geographies as an upload stores them: absent, a country code in either
\* case, country names, a name of no list
StoredGeographies == {NULL, Some("us"), Some("Germany"), Some("Atlantis")}

MacroRegions ==
  <<"North America", "Europe", "Asia-Pacific", "Latin America",
    "Middle East & Africa", "Other", "Unknown">>

\* the regions a call asks for
AskedRegions == {Some("North America"), Some("Europe"), Some("Other"), Some("Unknown")}

\* companies of one sector with an intensity each, geographies drawn freely
InitClassifyRegion ==
  /\ pc = "call"
  /\ ret = <<>>
  /\ db = <<>>
  /\ \E n \in {MaxRegionCompanies} :
       \E geographies \in [1..n -> StoredGeographies], geography \in AskedRegions :
         call = ClassifyCall(
                  [i \in 1..n |->
                     [CompanyData(i, Some("Energy"), "intensity", 2 + (i % 2))
                        EXCEPT !.company.geography = geographies[i]]],
                  DefaultParameters, geography)

SpecClassifyRegion == InitClassifyRegion /\ [][NextClassify]_vars

\* the region the geographies of the model belong to
ExpectedRegion(geography) ==
  CASE geography = NULL -> "Unknown"
    [] geography = Some("us") -> "North America"
    [] geography = Some("US") -> "North America"
    [] geography = Some("CA") -> "North America"
    [] geography = Some("USA") -> "North America"
    [] geography = Some("Germany") -> "Europe"
    [] geography = Some("Japan") -> "Asia-Pacific"
    [] OTHER -> "Other"

\* the companies of the call that belong to the region asked for
OfAskedRegion ==
  SelectSeq(call.companiesWithData,
            LAMBDA c : ExpectedRegion(c.company.geography) = call.geography[1])

RegionAsked == ClassifyDone /\ call.geography # NULL /\ call.geography # Some("")

\* C21: with a region asked for, every id of the four lists is the id of a
\* company of that region (no geography: Unknown; a geography of no list:
\* Other), and the lists are those of the companies of the region alone, so
\* that no company of another region counts for a tercile size.
C21_RegionFilter ==
  RegionAsked =>
    /\ ToSet(ret.lowCarbon) \cup ToSet(ret.decarbonizing) \cup ToSet(ret.solutions)
         \cup ToSet(ret.baseline) \subseteq Ids(ToSet(OfAskedRegion))
    /\ ret = classifyCompaniesSectorRelative(OfAskedRegion, call.date,
                                             call.parameters, NULL)
    /\ Len(ret.lowCarbon) =
         Cardinality({c \in ToSet(OfAskedRegion) : IntensityAt(c) # NULL}) \div 3

\* C21 witness: the region Unknown is asked for, three companies without
\* geography and two of other regions are given, and one company is low carbon
C21_Witness ==
  /\ RegionAsked
  /\ call.geography = Some("Unknown")
  /\ Len(OfAskedRegion) = 3
  /\ Len(call.companiesWithData) = 5
  /\ Len(ret.lowCarbon) = 1
  /\ \E c \in ToSet(call.companiesWithData) : c.company.geography = Some("Atlantis")

\* the same for the region Other
C21_WitnessOther ==
  /\ RegionAsked
  /\ call.geography = Some("Other")
  /\ Len(OfAskedRegion) = 3
  /\ Len(ret.lowCarbon) = 1
  /\ Len(ret.baseline) = 2


-----------------------------------------------------------------------------
(* Per-sector rows of runFullAnalysis *)

\* the companies of a run whose sector (industry) is s
CompaniesOfSectorOnly(s) ==
  SelectSeq(call.companiesWithData, LAMBDA c : GroupKey(c) = s)

\* the row analyzePortfolio gives over the companies of sector s alone
RowOfSectorOnly(row) ==
  analyzePortfolio(row.investmentType, CompaniesOfSectorOnly(row.sector), row.date,
                   call.parameters, row.sector, NULL)

\* C22: every row of a run that carries a sector s lists companies of
\* sector s only, and its averages, discount and price are those computed
\* over the companies of sector s alone.
C22_SectorRowsFromSectorOnly ==
  RunDone =>
    \A i \in 1..Len(ret.value) :
      LET row == ret.value[i]
      IN row.sector # NULL =>
           /\ ToSet(row.companies) \subseteq Ids(ToSet(CompaniesOfSectorOnly(row.sector)))
           /\ RowOfSectorOnly(row) = Some(row)

\* a run whose row of a sector lists a company of another sector and is the
\* row of the aggregate under the name of the sector
C22_SectorRowIsAggregate ==
  /\ RunDone
  /\ \E i, j \in 1..Len(ret.value) :
       /\ ret.value[i].sector # NULL
       /\ ret.value[j].sector = NULL /\ ret.value[j].geography = NULL
       /\ ret.value[i] = [ret.value[j] EXCEPT !.sector = ret.value[i].sector]
       /\ ~(ToSet(ret.value[i].companies)
              \subseteq Ids(ToSet(CompaniesOfSectorOnly(ret.value[i].sector))))


-----------------------------------------------------------------------------
(* Region names as dimensions of runFullAnalysis *)

\* the run was given names of regions as its geographies
RegionNamesGiven ==
  /\ RunDone
  /\ call.dimensions.geographies # NULL
  /\ call.dimensions.geographies[1] # <<>>
  /\ ToSet(call.dimensions.geographies[1]) \subseteq ToSet(MacroRegions)

\* the rows a run would hold for a region used as the filter
RowsOfRegion(region) ==
  Flatten([d \in 1..Len(call.dates) |->
    Flatten([t \in 1..Len(investmentTypes) |->
      Pushed(analyzePortfolio(investmentTypes[t], call.companiesWithData,
                              call.dates[d], call.parameters, NULL, Some(region)))])])

\* C23: every region name mapGeographyToRegion can return is mapped to
\* itself, so a run that is given names of regions evaluates once per given
\* region with that region as the filter: its regions are the given names
\* and its rows of a region are those of analyzePortfolio with that region.
C23_RegionNamesSurvive ==
  RegionNamesGiven =>
       /\ \A i \in 1..Len(MacroRegions) :
            mapGeographyToRegion(Some(MacroRegions[i])) = MacroRegions[i]
       /\ uniqueRegions(call.dimensions) = Distinct(call.dimensions.geographies[1])
       /\ \A region \in ToSet(call.dimensions.geographies[1]) :
            SelectSeq(ret.value, LAMBDA row : row.geography = Some(region))
              = RowsOfRegion(region)

\* a run given North America and Europe evaluates the region Other once and
\* holds no row of a region, although the filter North America gives rows
C23_EveryRegionBecomesOther ==
  /\ RegionNamesGiven
  /\ uniqueRegions(call.dimensions) = <<"Other">>
  /\ RowsOfRegion("North America") # <<>>
  /\ \A i \in 1..Len(ret.value) : ret.value[i].geography = NULL


-----------------------------------------------------------------------------
(* The dates of the total-based carbon price *)

\* the tables with two more dates: one whose bottom company reports scope 3
\* emissions only, one whose bottom company has no time series row
CarbonTablesWithGaps(topRows, bottomRows, includeScope3) ==
  LET tables == CarbonTables(topRows, bottomRows, includeScope3, TRUE)
      unreportedTop ==
        <<TsRow(1, UnreportedDate, Some(2), Some(1), Some(1), NULL, NULL, Some(2))>>
      unreportedBottom ==
        <<TsRow(21, UnreportedDate, Some(2), Some(1), NULL, NULL, Some(3), Some(2))>>
      unobservedTop ==
        <<TsRow(1, UnobservedDate, Some(2), Some(1), Some(1), NULL, NULL, Some(2))>>
      unobservedBottom ==
        <<TsRow(21, UnobservedDate, Some(2), Some(1), Some(1), NULL, NULL, Some(2))>>
  IN [tables EXCEPT
        !.companyTerciles =
          @ \o TercilesOf(unreportedTop, 1, "absolute", includeScope3, "top")
            \o TercilesOf(unreportedBottom, 1, "absolute", includeScope3, "bottom")
            \o TercilesOf(unobservedTop, 1, "absolute", includeScope3, "top")
            \o TercilesOf(unobservedBottom, 1, "absolute", includeScope3, "bottom"),
        !.timeSeries = @ \o unreportedTop \o unreportedBottom \o unobservedTop]

MaxDatedGroup == 1

InitCarbonDates ==
  /\ pc = [c \in {1} |-> "idle"]
  /\ ret = [c \in {1} |-> NoLocals]
  /\ \E top \in SeqsUpTo(TsProfiles, MaxDatedGroup),
        bottom \in SeqsUpTo(BottomProfiles, MaxDatedGroup) :
       \E includeScope3 \in BOOLEAN, winsorize \in BOOLEAN :
         /\ call = [c \in {1} |-> CarbonArgs(1, includeScope3, winsorize, 5)]
         /\ db = CarbonTablesWithGaps(ProfileRows(0, AnalysisDate, top),
                                      ProfileRows(20, AnalysisDate, bottom),
                                      IF includeScope3 THEN 1 ELSE 0)

SpecCarbonDates == InitCarbonDates /\ [][NextCarbonPrice]_vars

\* the dates of the terciles of the call of caller c
TercileDates(c) ==
  {t.date : t \in {t \in ToSet(db.companyTerciles) : tercileMatches(t, call[c])}}

\* at the date, a company of the tercile has an observation with a market
\* cap, a net profit and scope 1 or scope 2 emissions
HasValidCompany(c, date, assignment) ==
  \E t \in ToSet(db.companyTerciles), ts \in ToSet(db.timeSeries) :
    /\ tercileMatches(t, call[c])
    /\ t.date = date /\ t.tercileAssignment = assignment
    /\ ts.companyId = t.companyId /\ ts.date = date
    /\ ts.marketCap # NULL /\ ts.netProfit # NULL
    /\ (ts.scope1Emissions # NULL \/ ts.scope2Emissions # NULL)

RecordDates(c) ==
  {date \in TercileDates(c) :
     HasValidCompany(c, date, "top") /\ HasValidCompany(c, date, "bottom")}

\* C24: a call that computes returns without error, with one record for
\* each date at which the top and the bottom tercile both hold a company
\* whose observation has a market cap, a net profit and scope 1 or scope 2
\* emissions, and with no record for another date; the cache rows written
\* are those of the same dates.
C24_RecordExactlyForValidDates ==
  \A c \in Callers :
    pc[c] = "done" /\ ret[c].tercileReads > 0 =>
      /\ ret[c].error = ""
      /\ ret[c].returned # NULL
      /\ {r.date : r \in ReturnedResults(c)} = RecordDates(c)
      /\ Len(ret[c].returned[1]) = Cardinality(RecordDates(c))
      /\ {row.date : row \in ToSet(db.carbonPriceCache)} = RecordDates(c)
      /\ Len(db.carbonPriceCache) = Cardinality(RecordDates(c))

\* C24 witness: a call returned a record for the later date and none for
\* the date without bottom tercile, for the date whose bottom company
\* reports scope 3 emissions only, for the date whose bottom company has no
\* observation, and for the analysis date, whose top tercile holds only a
\* company without net profit
C24_Witness ==
  /\ pc[1] = "done" /\ ret[1].tercileReads > 0
  /\ RecordDates(1) = {LaterDate}
  /\ {SkippedDate, UnreportedDate, UnobservedDate, AnalysisDate} \subseteq TercileDates(1)
  /\ \E t \in ToSet(db.companyTerciles) :
       /\ tercileMatches(t, call[1])
       /\ t.date = AnalysisDate /\ t.tercileAssignment = "top"
  /\ HasValidCompany(1, AnalysisDate, "bottom")


-----------------------------------------------------------------------------
(* The order of the list handed to assignTerciles *)

\* the list with the entries at positions i and j exchanged
Exchanged(xs, i, j) ==
  [k \in 1..Len(xs) |-> IF k = i THEN xs[j] ELSE IF k = j THEN xs[i] ELSE xs[k]]

\* C25: assignTerciles gives every company the same label for the list and
\* for the list with any two entries exchanged (and so, exchanges generating
\* every permutation, for every order of the same pairs), also with equal
\* intensities at a tercile boundary.
C25_TercilesOrderIndependent ==
  TercilesDone =>
    \A i, j \in 1..Len(call.intensities) :
      assignTerciles(Exchanged(call.intensities, i, j)) = ret

\* three companies of one intensity: the first of the list is 'bottom' and
\* the last is 'top', and with the two exchanged each has the other's label
C25_TieDecidedByPosition ==
  /\ TercilesDone
  /\ Len(call.intensities) = 3
  /\ \A i \in 1..3 : call.intensities[i].intensity = Some(1)
  /\ ret[call.intensities[1].companyId] = "bottom"
  /\ ret[call.intensities[3].companyId] = "top"
  /\ LET other == assignTerciles(Exchanged(call.intensities, 1, 3))
     IN /\ other[call.intensities[1].companyId] = "top"
        /\ other[call.intensities[3].companyId] = "bottom"


-----------------------------------------------------------------------------
(* The upload of a file: the endpoint creates the upload record and starts
   a task that parses the file, stores the companies and the time series,
   computes the terciles and sets the status (routers.ts data.upload and
   the /api/upload route run the same steps). The task is caller 0; it
   takes one step per await, and every step may throw. Callers 1 and 2
   query the carbon price of the upload at any moment. *)

\* tercileCalculator lines 8-26: null without a positive market cap and
\* without emissions; the quotient is kept in sixths, which is exact for the
\* market caps 1..3 of the model
calculateCarbonIntensityOfTerciles(scope1, scope2, scope3, marketCap, includeScope3) ==
  IF marketCap = NULL \/ marketCap[1] = 0 \/ marketCap[1] <= 0 THEN NULL
  ELSE LET totalEmissions ==
             OrZero(scope1) + OrZero(scope2)
               + (IF includeScope3 THEN OrZero(scope3) ELSE 0)
       IN IF totalEmissions = 0 THEN NULL
          ELSE Some((totalEmissions * 6) \div marketCap[1])

\* lines 115-140: the list handed to assignTerciles for a scope option
intensitiesOf(tsForDate, includeScope3) ==
  [i \in 1..Len(tsForDate) |->
     [companyId |-> tsForDate[i].companyId,
      intensity |->
        calculateCarbonIntensityOfTerciles(
          tsForDate[i].scope1Emissions, tsForDate[i].scope2Emissions,
          tsForDate[i].scope3Emissions, tsForDate[i].marketCap, includeScope3)]]

\* companySectors.get(companyId): undefined (null here) for an unknown id
sectorOfCompany(allCompanies, companyId) ==
  LET found == SelectSeq(allCompanies, LAMBDA c : c.id = companyId)
  IN IF found = <<>> THEN NULL ELSE found[Len(found)].sector

\* lines 142-186: the label of a company within its sector group
sectorRelativeLabel(tsForDate, allCompanies, companyId, includeScope3) ==
  LET sector == sectorOfCompany(allCompanies, companyId)
      group == SelectSeq(tsForDate,
                         LAMBDA ts : sectorOfCompany(allCompanies, ts.companyId) = sector)
  IN IF sector = NULL \/ sector = Some("") THEN "null"
     ELSE assignTerciles(intensitiesOf(group, includeScope3))[companyId]

\* lines 188-234: the four records of every row of the date
tercileRecords(uploadId, date, tsForDate, allCompanies) ==
  LET absolute12 == assignTerciles(intensitiesOf(tsForDate, FALSE))
      absolute123 == assignTerciles(intensitiesOf(tsForDate, TRUE))
  IN Flatten([i \in 1..Len(tsForDate) |->
       LET id == tsForDate[i].companyId
       IN <<TercileRow(uploadId, id, date, "absolute", 0, absolute12[id]),
            TercileRow(uploadId, id, date, "absolute", 1, absolute123[id]),
            TercileRow(uploadId, id, date, "sector_relative", 0,
                       sectorRelativeLabel(tsForDate, allCompanies, id, FALSE)),
            TercileRow(uploadId, id, date, "sector_relative", 1,
                       sectorRelativeLabel(tsForDate, allCompanies, id, TRUE))>>])

\* lines 87-99: the dates of the time series, sorted
uniqueDates(allTimeSeries) ==
  SelectSeq(Calendar, LAMBDA d : \E ts \in ToSet(allTimeSeries) : ts.date = d)

\* db.upsertCompany: insert, or update of the row with the isin
upsertCompany(rows, company) ==
  IF \E i \in 1..Len(rows) : rows[i].isin = company.isin
  THEN [i \in 1..Len(rows) |->
          IF rows[i].isin = company.isin
          THEN [id |-> rows[i].id, isin |-> company.isin, sector |-> company.sector]
          ELSE rows[i]]
  ELSE Append(rows, [id |-> Len(rows) + 1, isin |-> company.isin,
                     sector |-> company.sector])

\* routers.ts 77-87: the parsed rows with the ids of the stored companies
timeSeriesWithIds(processedData, companies) ==
  LET idOf(isin) ==
        LET found == SelectSeq(companies, LAMBDA c : c.isin = isin)
        IN IF found = <<>> THEN 0 ELSE found[Len(found)].id
      mapped ==
        [i \in 1..Len(processedData.timeSeries) |->
           LET ts == processedData.timeSeries[i]
           IN IF ts.companyId \in 1..Len(processedData.companies)
              THEN [ts EXCEPT !.companyId = idOf(processedData.companies[ts.companyId].isin)]
              ELSE [ts EXCEPT !.companyId = 0]]
  IN SelectSeq(mapped, LAMBDA ts : ts.companyId # 0)

\* db.updateDataUploadStatus
updateDataUploadStatus(rows, uploadId, status) ==
  [i \in 1..Len(rows) |->
     IF rows[i].id = uploadId THEN [rows[i] EXCEPT !.status = status] ELSE rows[i]]

UploadTask == 0

\* the locals of the upload task
UploadLocals ==
  [uploadId |-> 0, companyIdx |-> 0, companies |-> <<>>, allCompanies |-> <<>>,
   allTimeSeries |-> <<>>, dateIdx |-> 0, thrown |-> FALSE, tercilesReturned |-> FALSE,
   response |-> NULL, error |-> ""]

\* the catch block is entered: updateDataUploadStatus(uploadId, 'failed') is next
Throw(locals) ==
  /\ pc' = [pc EXCEPT ![UploadTask] = "markFailed"]
  /\ ret' = [ret EXCEPT ![UploadTask] = [locals EXCEPT !.thrown = TRUE]]

\* routers.ts 43: the file is stored; the endpoint throws when this fails
StoragePut ==
  /\ pc[UploadTask] = "storagePut"
  /\ \E ok \in BOOLEAN :
       pc' = [pc EXCEPT ![UploadTask] = IF ok THEN "createDataUpload" ELSE "rejected"]
  /\ UNCHANGED <<call, ret, db>>

\* routers.ts 46-64 and 111: the record is created with status 'processing',
\* the task starts and runs to its first await (the file is parsed), and
\* the endpoint answers
CreateDataUpload ==
  /\ pc[UploadTask] = "createDataUpload"
  /\ \E ok \in BOOLEAN, parsed \in BOOLEAN :
       IF ~ok
       THEN /\ pc' = [pc EXCEPT ![UploadTask] = "rejected"]
            /\ UNCHANGED <<ret, db>>
       ELSE LET uploadId == Len(db.dataUploads) + 1
                locals == [ret[UploadTask] EXCEPT
                             !.uploadId = uploadId,
                             !.response = Some([uploadId |-> uploadId,
                                                status |-> "processing"])]
            IN /\ db' = [db EXCEPT !.dataUploads =
                           Append(@, [id |-> uploadId, status |-> "processing"])]
               /\ IF ~parsed THEN Throw(locals)
                  ELSE IF Len(call[UploadTask].processedData.companies) = 0
                  THEN /\ pc' = [pc EXCEPT ![UploadTask] = "getAllCompanies"]
                       /\ ret' = [ret EXCEPT ![UploadTask] = locals]
                  ELSE /\ pc' = [pc EXCEPT ![UploadTask] = "upsertCompany"]
                       /\ ret' = [ret EXCEPT ![UploadTask] =
                                    [locals EXCEPT !.companyIdx = 1]]
  /\ UNCHANGED call

\* routers.ts 68-70: one company is stored
UpsertCompany ==
  /\ pc[UploadTask] = "upsertCompany"
  /\ \E ok \in BOOLEAN :
       IF ~ok THEN Throw(ret[UploadTask]) /\ UNCHANGED db
       ELSE LET companies == call[UploadTask].processedData.companies
                i == ret[UploadTask].companyIdx
            IN /\ db' = [db EXCEPT !.companies = upsertCompany(@, companies[i])]
               /\ IF i < Len(companies)
                  THEN /\ ret' = [ret EXCEPT ![UploadTask].companyIdx = i + 1]
                       /\ UNCHANGED pc
                  ELSE /\ pc' = [pc EXCEPT ![UploadTask] = "getAllCompanies"]
                       /\ UNCHANGED ret
  /\ UNCHANGED call

\* routers.ts 74-75
GetAllCompanies ==
  /\ pc[UploadTask] = "getAllCompanies"
  /\ \E ok \in BOOLEAN :
       IF ~ok THEN Throw(ret[UploadTask])
       ELSE /\ pc' = [pc EXCEPT ![UploadTask] = "insertTimeSeriesBatch"]
            /\ ret' = [ret EXCEPT ![UploadTask].companies = db.companies]
  /\ UNCHANGED <<call, db>>

\* routers.ts 77-91: the rows of the file are stored
InsertTimeSeriesBatch ==
  /\ pc[UploadTask] = "insertTimeSeriesBatch"
  /\ \E ok \in BOOLEAN :
       IF ~ok THEN Throw(ret[UploadTask]) /\ UNCHANGED db
       ELSE /\ db' = [db EXCEPT !.timeSeries =
                        @ \o timeSeriesWithIds(call[UploadTask].processedData,
                                               ret[UploadTask].companies)]
            /\ pc' = [pc EXCEPT ![UploadTask] = "selectCompanies"]
            /\ UNCHANGED ret
  /\ UNCHANGED call

\* computeTercilesForUpload, line 84
SelectCompanies ==
  /\ pc[UploadTask] = "selectCompanies"
  /\ \E ok \in BOOLEAN :
       IF ~ok THEN Throw(ret[UploadTask])
       ELSE /\ pc' = [pc EXCEPT ![UploadTask] = "selectTimeSeries"]
            /\ ret' = [ret EXCEPT ![UploadTask].allCompanies = db.companies]
  /\ UNCHANGED <<call, db>>

\* computeTercilesForUpload, lines 85-105; without dates the function returns
SelectTimeSeries ==
  /\ pc[UploadTask] = "selectTimeSeries"
  /\ \E ok \in BOOLEAN :
       IF ~ok THEN Throw(ret[UploadTask])
       ELSE IF uniqueDates(db.timeSeries) = <<>>
       THEN /\ pc' = [pc EXCEPT ![UploadTask] = "markCompleted"]
            /\ ret' = [ret EXCEPT ![UploadTask].allTimeSeries = db.timeSeries,
                                  ![UploadTask].tercilesReturned = TRUE]
       ELSE /\ pc' = [pc EXCEPT ![UploadTask] = "insertTerciles"]
            /\ ret' = [ret EXCEPT ![UploadTask].allTimeSeries = db.timeSeries,
                                  ![UploadTask].dateIdx = 1]
  /\ UNCHANGED <<call, db>>

\* computeTercilesForUpload, lines 105-245: the records of a date are inserted
InsertTerciles ==
  /\ pc[UploadTask] = "insertTerciles"
  /\ \E ok \in BOOLEAN :
       IF ~ok THEN Throw(ret[UploadTask]) /\ UNCHANGED db
       ELSE LET locals == ret[UploadTask]
                dates == uniqueDates(locals.allTimeSeries)
                date == dates[locals.dateIdx]
                tsForDate == SelectSeq(locals.allTimeSeries, LAMBDA ts : ts.date = date)
            IN /\ db' = [db EXCEPT !.companyTerciles =
                           @ \o tercileRecords(locals.uploadId, date, tsForDate,
                                               locals.allCompanies)]
               /\ IF locals.dateIdx < Len(dates)
                  THEN /\ ret' = [ret EXCEPT ![UploadTask].dateIdx = @ + 1]
                       /\ UNCHANGED pc
                  ELSE /\ pc' = [pc EXCEPT ![UploadTask] = "markCompleted"]
                       /\ ret' = [ret EXCEPT ![UploadTask].tercilesReturned = TRUE]
  /\ UNCHANGED call

\* routers.ts 100-103: the status becomes 'completed' and the task ends
MarkCompleted ==
  /\ pc[UploadTask] = "markCompleted"
  /\ \E ok \in BOOLEAN :
       IF ~ok THEN Throw(ret[UploadTask]) /\ UNCHANGED db
       ELSE /\ db' = [db EXCEPT !.dataUploads =
                        updateDataUploadStatus(@, ret[UploadTask].uploadId, "completed")]
            /\ pc' = [pc EXCEPT ![UploadTask] = "done"]
            /\ UNCHANGED ret
  /\ UNCHANGED call

\* routers.ts 104-109: the catch block; when its update throws nothing
\* handles the rejection and the task ends
MarkFailed ==
  /\ pc[UploadTask] = "markFailed"
  /\ \E ok \in BOOLEAN :
       IF ~ok
       THEN /\ pc' = [pc EXCEPT ![UploadTask] = "abandoned"]
            /\ UNCHANGED db
       ELSE /\ db' = [db EXCEPT !.dataUploads =
                        updateDataUploadStatus(@, ret[UploadTask].uploadId, "failed")]
            /\ pc' = [pc EXCEPT ![UploadTask] = "failed"]
  /\ UNCHANGED <<call, ret>>

UploadSteps ==
  \/ StoragePut
  \/ CreateDataUpload
  \/ UpsertCompany
  \/ GetAllCompanies
  \/ InsertTimeSeriesBatch
  \/ SelectCompanies
  \/ SelectTimeSeries
  \/ InsertTerciles
  \/ MarkCompleted
  \/ MarkFailed

\* the parsed file: three companies with rows at MaxUploadDates dates; the
\* first company has the lowest intensity and the last the highest
MaxUploadDates == 2

UploadDates == <<AnalysisDate, LaterDate, UnreportedDate>>

ProcessedData(sectors) ==
  [companies |-> [i \in 1..3 |-> [isin |-> <<"isin", i>>, sector |-> sectors[i]]],
   timeSeries |->
     Flatten([d \in 1..MaxUploadDates |->
       [i \in 1..3 |->
          TsRow(i, UploadDates[d], Some(4 - i), Some(i), Some(i), NULL, Some(1),
                Some(2))]])]

InitUpload ==
  /\ pc = [c \in {UploadTask, 1, 2} |-> IF c = UploadTask THEN "storagePut" ELSE "idle"]
  /\ ret = [c \in {UploadTask, 1, 2} |-> IF c = UploadTask THEN UploadLocals ELSE NoLocals]
  /\ db = [companies |-> <<>>, timeSeries |-> <<>>, companyTerciles |-> <<>>,
           carbonPriceCache |-> <<>>, dataUploads |-> <<>>]
  /\ \E sectors \in {<<Some("Energy"), Some("Energy"), Some("Energy")>>,
                     <<Some("Energy"), NULL, Some("Tech")>>},
        includeScope3 \in BOOLEAN :
       call = [c \in {UploadTask, 1, 2} |->
                 IF c = UploadTask
                 THEN [fn |-> "upload", processedData |-> ProcessedData(sectors)]
                 ELSE CarbonArgs(1, includeScope3, FALSE, 5)]

NextUpload == UploadSteps \/ NextCarbonPrice

SpecUpload == InitUpload /\ [][NextUpload]_vars


-----------------------------------------------------------------------------
(* Claims on the upload and the queries made while it runs *)

\* the status of the upload the task has created, or "none"
UploadStatus ==
  LET rows == SelectSeq(db.dataUploads, LAMBDA u : u.id = ret[UploadTask].uploadId)
  IN IF rows = <<>> THEN "none" ELSE rows[1].status

\* caller c has called after the upload was completed, and has returned
ReturnedAfterCompletion(c) ==
  /\ c # UploadTask
  /\ CarbonReturned(c)
  /\ UploadTask \in ret[c].startedAfter

\* C26: a call made once the upload is completed returns a record for every
\* date at which the tercile rows of the upload give a valid top and bottom
\* group, whatever calls with the same key were made while the tercile rows
\* were being inserted.
C26_QueryDuringUploadDoesNotPoison ==
  \A c \in Callers :
    ReturnedAfterCompletion(c) =>
      RecordDates(c) \subseteq {r.date : r \in ReturnedResults(c)}

\* a call made while the tercile rows of the first date only were stored has
\* cached the record of that date, and a call made after completion returns
\* that record alone from the cache although two dates have valid groups
C26_PartialAnswerCached ==
  /\ UploadStatus = "completed"
  /\ \E early, late \in Callers \ {UploadTask} :
       /\ CarbonReturned(early)
       /\ UploadTask \notin ret[early].startedAfter
       /\ ret[early].inserts = 1
       /\ ReturnedAfterCompletion(late)
       /\ ret[late].tercileReads = 0
       /\ Len(ret[late].returned[1]) = 1
       /\ Cardinality(RecordDates(late)) = 2

\* the task has ended: normally, in its catch block, or with a rejection
\* that nothing handles
TaskEnded == pc[UploadTask] \in {"done", "failed", "abandoned"}

\* the steps of the status: created as 'processing', final once it is
\* 'completed' or 'failed'
StatusStep ==
  /\ UploadStatus = "none" /\ UploadStatus' # "none" => UploadStatus' = "processing"
  /\ UploadStatus \in {"completed", "failed"} => UploadStatus' = UploadStatus

\* C28: the upload is created with status 'processing'; the status is
\* 'completed' only when computeTercilesForUpload has returned; when a step
\* of the task has thrown, the status is 'failed' once the task has ended;
\* a status 'completed' or 'failed' never changes.
C28_StatusProtocol ==
  /\ [](UploadStatus = "completed" => ret[UploadTask].tercilesReturned)
  /\ [](TaskEnded /\ ret[UploadTask].thrown => UploadStatus = "failed")
  /\ [][StatusStep]_vars

\* the same without the clause on the steps that throw
C28_StatusOrder ==
  /\ [](UploadStatus = "completed" => ret[UploadTask].tercilesReturned)
  /\ [](UploadStatus = "failed" => ret[UploadTask].thrown)
  /\ [][StatusStep]_vars

\* a step has thrown, the update of the catch block has thrown too, and the
\* task has ended with the status still 'processing'
C28_RejectionUnhandled ==
  /\ pc[UploadTask] = "abandoned"
  /\ ret[UploadTask].thrown
  /\ UploadStatus = "processing"

\* the task takes its steps; the steps of the callers are not forced
FairSpecUpload == SpecUpload /\ WF_vars(UploadSteps)

\* C29: an upload with status 'processing' eventually has status
\* 'completed' or 'failed'.
C29_UploadLeavesProcessing ==
  (UploadStatus = "processing") ~> (UploadStatus \in {"completed", "failed"})

\* the same when the update of the catch block does not throw
C29_LeavesProcessingUnlessAbandoned ==
  (UploadStatus = "processing")
    ~> (UploadStatus \in {"completed", "failed"} \/ pc[UploadTask] = "abandoned")


-----------------------------------------------------------------------------
(* The cache while it is being written: a computation over more dates than
   a chunk holds writes its cache rows with two inserts, and a second call
   with the same key runs meanwhile. Dates are day numbers here. *)

\* one date more than a chunk of cache rows holds
ManyDates == ChunkSize + 1

\* a top and a bottom company with a row at every date
ManyDatesTables ==
  LET topRows == [d \in 1..ManyDates |->
                    TsRow(1, d, Some(2), Some(2), Some(2), NULL, NULL, Some(1))]
      bottomRows == [d \in 1..ManyDates |->
                       TsRow(21, d, Some(3), Some(1), NULL, Some(1), NULL, Some(3))]
  IN [companyTerciles |->
        [i \in 1..(2 * ManyDates) |->
           IF i % 2 = 1
           THEN TercileRow(1, 1, (i + 1) \div 2, "absolute", 0, "top")
           ELSE TercileRow(1, 21, i \div 2, "absolute", 0, "bottom")],
      timeSeries |-> topRows \o bottomRows,
      carbonPriceCache |-> <<>>]

\* the locals of a call that has computed the results of every date of the
\* tables and is about to insert its first chunk of cache rows (line 249)
LocalsBeforeInsert(tables, args) ==
  LET terciles == SelectSeq(tables.companyTerciles, LAMBDA t : tercileMatches(t, args))
      keys == dateKeys(terciles)
      results ==
        [k \in 1..Len(keys) |->
           dateResult(keys[k], tercilesOfDate(terciles, keys[k]),
                      SelectSeq(tables.timeSeries, LAMBDA ts : ts.date = keys[k]),
                      args.includeScope3, args.winsorize, args.winsorizePercentile)[1]]
  IN [NoLocals EXCEPT
        !.terciles = terciles,
        !.dateIdx = Len(keys),
        !.results = results,
        !.cacheRecords = [k \in 1..Len(results) |-> cacheRecord(results[k], args)],
        !.cacheReads = 1,
        !.tercileReads = 1,
        !.timeSeriesReads = Len(keys)]

\* caller 1 has computed and is about to write the cache; caller 2 has not
\* called yet
InitCarbonChunks ==
  /\ db = ManyDatesTables
  /\ \E winsorize \in BOOLEAN :
       /\ call = [c \in {1, 2} |-> CarbonArgs(1, FALSE, winsorize, 5)]
       /\ ret = [c \in {1, 2} |->
                   IF c = 1 THEN LocalsBeforeInsert(ManyDatesTables, call[1])
                   ELSE NoLocals]
  /\ pc = [c \in {1, 2} |-> IF c = 1 THEN "insertChunk" ELSE "idle"]

SpecCarbonChunks == InitCarbonChunks /\ [][NextCarbonPrice]_vars

\* caller c has returned from the cached path (lines 52-66)
ReturnedFromCache(c) == CarbonReturned(c) /\ ret[c].tercileReads = 0

\* C27: a call that returns from the cached path returns a record for every
\* date of the results of the computation that writes (or has written) the
\* cache rows.
C27_CachedPathComplete ==
  \A c, w \in Callers :
    ReturnedFromCache(c) /\ ret[w].cacheRecords # <<>> =>
      {r.date : r \in ToSet(ret[w].results)} \subseteq {r.date : r \in ReturnedResults(c)}

\* the second call read the cache between the two inserts of the first and
\* returned the records of the first chunk only
C27_FirstChunkOnly ==
  /\ ReturnedFromCache(2)
  /\ Len(ret[2].returned[1]) = ChunkSize
  /\ CarbonReturned(1)
  /\ Len(ret[1].returned[1]) = ChunkSize + 1
  /\ ret[1].inserts = 2

-----------------------------------------------------------------------------
(* analyzePortfolio over companies whose price/earnings ratio is absent, zero,
   negative or positive *)

MaxPeCompanies == 4

\* the price/earnings ratios of an observation
PeValues == {NULL, Some(0), Some(-4), Some(10), Some(40)}

\* company i of the sector with the intensity i and a price/earnings ratio
PeCompany(i, priceEarnings) ==
  [CompanyData(i, Some("Energy"), "none", 1) EXCEPT
     !.timeSeries = <<Obs(AnalysisDate, Some(1000000), Some(i), NULL, NULL, priceEarnings)>>]

InitAnalyzePe ==
  /\ pc = "call"
  /\ ret = [error |-> "", value |-> NULL]
  /\ db = <<>>
  /\ \E investmentType \in ToSet(investmentTypes), methodology \in {"relative", "dcf"} :
       \E ratios \in [1..MaxPeCompanies -> PeValues] :
         call = [fn |-> "analyzePortfolio", investmentType |-> investmentType,
                 companiesWithData |->
                   [i \in 1..MaxPeCompanies |-> PeCompany(i, ratios[i])],
                 date |-> AnalysisDate,
                 parameters |-> [DefaultParameters EXCEPT !.methodology = methodology],
                 sector |-> NULL, geography |-> NULL]

SpecAnalyzePe == InitAnalyzePe /\ [][AnalyzePortfolio]_vars

AnalyzeDone == pc = "done" /\ call.fn = "analyzePortfolio"

\* the two lists of the call and their metrics
CallClimateList ==
  climateCompaniesOf(classifyCompaniesSectorRelative(call.companiesWithData, call.date,
                                                     call.parameters, call.geography),
                     call.investmentType)

CallBaselineList ==
  classifyCompaniesSectorRelative(call.companiesWithData, call.date, call.parameters,
                                  call.geography).baseline

CallMetrics(companyIds) ==
  calculatePortfolioMetrics(companyIds, call.companiesWithData, call.date,
                            call.parameters.includeScope3)

\* a company of the list has a price/earnings ratio among the given ones
ListHasPe(companyIds, ratios) ==
  \E i \in 1..Len(call.companiesWithData) :
    /\ call.companiesWithData[i].company.id \in ToSet(companyIds)
    /\ call.companiesWithData[i].timeSeries[1].priceEarnings \in ratios

\* C30: inside analyzePortfolio the valuation is reached only with metrics
\* of both portfolios whose average price/earnings ratio is above zero, and
\* the discount of every row it returns is a finite number above -1.
C30_BaselinePePositive ==
  AnalyzeDone =>
    /\ ret.error = ""
    /\ (CallMetrics(CallClimateList) # NULL /\ CallMetrics(CallBaselineList) # NULL) =>
         /\ RLess(RZero, CallMetrics(CallClimateList)[1].avgPeRatio)
         /\ RLess(RZero, CallMetrics(CallBaselineList)[1].avgPeRatio)
    /\ ret.value # NULL =>
         /\ CallMetrics(CallClimateList) # NULL
         /\ CallMetrics(CallBaselineList) # NULL
         /\ ret.value[1].carbonRiskDiscount[2] > 0
         /\ RLess(Rat(-1, 1), ret.value[1].carbonRiskDiscount)

\* a row is returned although the baseline list holds a company with a zero
\* or a negative ratio, under either methodology
C30_Witness ==
  /\ AnalyzeDone
  /\ ret.value # NULL
  /\ ListHasPe(CallBaselineList, {Some(0), Some(-4)})
  /\ call.parameters.methodology = "relative"

C30_WitnessDcf ==
  /\ AnalyzeDone
  /\ ret.value # NULL
  /\ ListHasPe(CallBaselineList, {Some(-4)})
  /\ RLess(ret.value[1].carbonRiskDiscount, RZero)
  /\ call.parameters.methodology = "dcf"

=============================================================================
